---- MODULE Spec2Model ----
(***************************************************************************)
(* A model of the InvestEz query router (agents/orchestrator.py): intent   *)
(* classification over the text of a query, dispatch to the specialist     *)
(* handlers and the session field last_context.                            *)
(*                                                                         *)
(* Text is modelled as TLC strings, handled character by character with    *)
(* Len, SubSeq and \o, so that case folding, stripping, splitting and      *)
(* substring replacement are computed the way the Python code does.        *)
(***************************************************************************)
EXTENDS Integers, Sequences, FiniteSets, TLC

(***************************************************************************)
(* Python str / re primitives used by the orchestrator                     *)
(***************************************************************************)

LowerLetters == "abcdefghijklmnopqrstuvwxyz"
UpperLetters == "ABCDEFGHIJKLMNOPQRSTUVWXYZ"
Digits == "0123456789"

CharAt(s, i) == SubSeq(s, i, i)

CharSet(s) == {CharAt(s, i) : i \in 1..Len(s)}

LowerSet == CharSet(LowerLetters)
UpperSet == CharSet(UpperLetters)
WordSet == LowerSet \cup UpperSet \cup CharSet(Digits) \cup {"_"}

\* position of the one-character string c in the string s
IndexIn(s, c) == CHOOSE i \in 1..Len(s) : CharAt(s, i) = c

\* str.lower() on one character
LowerChar(c) ==
    IF c \in UpperSet THEN CharAt(LowerLetters, IndexIn(UpperLetters, c)) ELSE c

\* str.upper() on one character
UpperChar(c) ==
    IF c \in LowerSet THEN CharAt(UpperLetters, IndexIn(LowerLetters, c)) ELSE c

RECURSIVE Lower(_)
Lower(s) == IF Len(s) = 0 THEN "" ELSE LowerChar(CharAt(s, 1)) \o Lower(SubSeq(s, 2, Len(s)))

RECURSIVE Upper(_)
Upper(s) == IF Len(s) = 0 THEN "" ELSE UpperChar(CharAt(s, 1)) \o Upper(SubSeq(s, 2, Len(s)))

\* the whitespace characters of the model's alphabet (Python \s, str.strip, str.split)
IsSpace(c) == c \in {" ", "\t"}

\* regular expression class \w
IsWordChar(c) == c \in WordSet

RECURSIVE LStrip(_)
LStrip(s) ==
    IF Len(s) > 0 /\ IsSpace(CharAt(s, 1)) THEN LStrip(SubSeq(s, 2, Len(s))) ELSE s

RECURSIVE RStrip(_)
RStrip(s) ==
    IF Len(s) > 0 /\ IsSpace(CharAt(s, Len(s))) THEN RStrip(SubSeq(s, 1, Len(s) - 1)) ELSE s

\* str.strip()
Strip(s) == RStrip(LStrip(s))

\* p in s
Contains(s, p) ==
    \E i \in 1..(Len(s) - Len(p) + 1) : SubSeq(s, i, i + Len(p) - 1) = p

\* any(p in s for p in patterns)
ContainsAny(s, patterns) == \E k \in 1..Len(patterns) : Contains(s, patterns[k])

StartsWith(s, p) == Len(s) >= Len(p) /\ SubSeq(s, 1, Len(p)) = p

\* length of the run of whitespace at the start of s
RECURSIVE SpaceRun(_)
SpaceRun(s) ==
    IF Len(s) > 0 /\ IsSpace(CharAt(s, 1)) THEN 1 + SpaceRun(SubSeq(s, 2, Len(s))) ELSE 0

\* length of the first whitespace-free token of s (s starts with a non-space)
RECURSIVE TokenRun(_)
TokenRun(s) ==
    IF Len(s) > 0 /\ ~IsSpace(CharAt(s, 1)) THEN 1 + TokenRun(SubSeq(s, 2, Len(s))) ELSE 0

\* str.split(): the sequence of whitespace-separated tokens
RECURSIVE Split(_)
Split(s) ==
    LET t == LStrip(s)
        n == TokenRun(t)
    IN IF Len(t) = 0 THEN << >>
       ELSE <<SubSeq(t, 1, n)>> \o Split(SubSeq(t, n + 1, Len(t)))

\* str.replace(p, r): every non-overlapping occurrence, scanning from the left
RECURSIVE Replace(_, _, _)
Replace(s, p, r) ==
    IF Len(s) < Len(p) THEN s
    ELSE IF StartsWith(s, p) THEN r \o Replace(SubSeq(s, Len(p) + 1, Len(s)), p, r)
    ELSE CharAt(s, 1) \o Replace(SubSeq(s, 2, Len(s)), p, r)

\* re.sub(p, r, s, flags=re.IGNORECASE) for a literal lower-case phrase p;
\* ls is Lower(s), which has the length of s, walked along with s
RECURSIVE ReplaceFolded(_, _, _, _)
ReplaceFolded(s, ls, p, r) ==
    IF Len(s) < Len(p) THEN s
    ELSE IF StartsWith(ls, p)
         THEN r \o ReplaceFolded(SubSeq(s, Len(p) + 1, Len(s)), SubSeq(ls, Len(p) + 1, Len(ls)), p, r)
    ELSE CharAt(s, 1) \o ReplaceFolded(SubSeq(s, 2, Len(s)), SubSeq(ls, 2, Len(ls)), p, r)

ReplaceIgnoreCase(s, p, r) == ReplaceFolded(s, Lower(s), p, r)

\* for phrase in phrases: s = s.replace(phrase, "")
RECURSIVE RemoveAll(_, _)
RemoveAll(s, phrases) ==
    IF Len(phrases) = 0 THEN s
    ELSE RemoveAll(Replace(s, Head(phrases), ""), Tail(phrases))

\* for phrase in phrases: s = re.sub(phrase, "", s, flags=re.IGNORECASE)
RECURSIVE RemoveAllIgnoreCase(_, _)
RemoveAllIgnoreCase(s, phrases) ==
    IF Len(phrases) = 0 THEN s
    ELSE RemoveAllIgnoreCase(ReplaceIgnoreCase(s, Head(phrases), ""), Tail(phrases))

\* str.rstrip("?")
RECURSIVE RStripQ(_)
RStripQ(s) ==
    IF Len(s) > 0 /\ CharAt(s, Len(s)) = "?" THEN RStripQ(SubSeq(s, 1, Len(s) - 1)) ELSE s

\* length of a match of the regular expression \s+VS\.?\s+ at the start of s,
\* 0 when it does not match there (both \s+ are greedy)
VsMatchLen(s) ==
    LET a == SpaceRun(s)
        t == SubSeq(s, a + 1, Len(s))
        dot == IF Len(t) >= 3 /\ CharAt(t, 3) = "." THEN 1 ELSE 0
        withDot == SpaceRun(SubSeq(t, 3 + dot, Len(t)))
        noDot == SpaceRun(SubSeq(t, 3, Len(t)))
    IN IF a = 0 \/ ~StartsWith(t, "VS") THEN 0
       ELSE IF withDot > 0 THEN a + 2 + dot + withDot
       ELSE IF noDot > 0 THEN a + 2 + noDot
       ELSE 0

\* re.split(r'\s+VS\.?\s+', s): acc is the piece being collected
RECURSIVE SplitVsFrom(_, _)
SplitVsFrom(s, acc) ==
    IF Len(s) = 0 THEN <<acc>>
    ELSE LET m == VsMatchLen(s)
         IN IF m > 0 THEN <<acc>> \o SplitVsFrom(SubSeq(s, m + 1, Len(s)), "")
            ELSE SplitVsFrom(SubSeq(s, 2, Len(s)), acc \o CharAt(s, 1))

SplitVs(s) == SplitVsFrom(s, "")

\* str.split(sep) for a non-empty literal separator
RECURSIVE SplitOnFrom(_, _, _)
SplitOnFrom(s, sep, acc) ==
    IF Len(s) = 0 THEN <<acc>>
    ELSE IF StartsWith(s, sep) THEN <<acc>> \o SplitOnFrom(SubSeq(s, Len(sep) + 1, Len(s)), sep, "")
    ELSE SplitOnFrom(SubSeq(s, 2, Len(s)), sep, acc \o CharAt(s, 1))

SplitOn(s, sep) == SplitOnFrom(s, sep, "")

\* re.sub(r'[^\w&]', ' ', s)
RECURSIVE BlankNonSymbol(_)
BlankNonSymbol(s) ==
    IF Len(s) = 0 THEN ""
    ELSE (IF IsWordChar(CharAt(s, 1)) \/ CharAt(s, 1) = "&" THEN CharAt(s, 1) ELSE " ")
         \o BlankNonSymbol(SubSeq(s, 2, Len(s)))

(***************************************************************************)
(* Orchestrator: intent classification                                     *)
(***************************************************************************)

\* an empty Python dict ({}); non-empty dicts are records
EmptyDict == << >>

\* truth value of a dict
NonEmpty(d) == DOMAIN d # {}

ComparisonPatterns == <<"compare", "vs", "versus", "difference between", "better">>

MfPatterns ==
    <<"mutual fund", "mf ", " fund", "flexi cap", "large cap",
      "mid cap", "small cap", "elss", "sip", "nav">>

NewsPatterns == <<"news", "happening", "latest", "recent", "update">>

ConceptPatterns ==
    <<"what is", "what's", "what does", "explain", "meaning of",
      "define", "how does", "why is">>

StockPatterns ==
    <<"tell me about", "analyze", "analysis", "stock", "share",
      "company", "how is", "price of">>

FollowupPatterns ==
    <<"why", "how come", "what about", "and", "also", "more",
      "their", "its", "this", "that", "it">>

ExitCommands == <<"exit", "quit", "bye", "goodbye", "q">>

HelpCommands == <<"help", "?", "commands", "how to use">>

StockPhrases ==
    <<"TELL ME ABOUT", "ANALYZE", "ANALYSIS OF", "STOCK",
      "SHARE", "COMPANY", "ABOUT", "THE">>

FundPhrases ==
    <<"tell me about", "analyze", "analysis of", "mutual fund",
      "fund details", "about the", "about">>

NewsPhrases ==
    <<"what's happening with", "news about", "latest on",
      "news on", "updates on", "what is happening">>

ConceptPhrases ==
    <<"what is", "what's", "what does", "explain",
      "meaning of", "define", "mean">>

\* x in list
InList(x, list) == \E k \in 1..Len(list) : list[k] = x

IsComparison(query) == ContainsAny(query, ComparisonPatterns)
IsMfQuery(query) == ContainsAny(query, MfPatterns)
IsNewsQuery(query) == ContainsAny(query, NewsPatterns)
IsConceptQuery(query) == ContainsAny(query, ConceptPatterns)
IsStockQuery(query) == ContainsAny(query, StockPatterns)
IsFollowup(query) == ContainsAny(query, FollowupPatterns)

\* the exit test without lower(): case-sensitive
IsExitCommandCased(query) == InList(query, ExitCommands)

IsExitCommand(query) == InList(Lower(query), ExitCommands)
IsHelpCommand(query) == InList(Lower(query), HelpCommands)

\* _clean_symbol: first token of the text with everything but \w and & blanked
CleanSymbol(text) ==
    LET words == Split(BlankNonSymbol(text))
    IN IF Len(words) > 0 THEN Upper(words[1]) ELSE ""

\* [s for s in symbols if s]
RECURSIVE DropEmpty(_)
DropEmpty(symbols) ==
    IF Len(symbols) = 0 THEN << >>
    ELSE (IF Head(symbols) # "" THEN <<Head(symbols)>> ELSE << >>) \o DropEmpty(Tail(symbols))

CleanEach(parts) == [k \in 1..Len(parts) |-> CleanSymbol(parts[k])]

ExtractComparisonSymbols(query) ==
    LET q == Upper(query)
    IN IF Contains(q, " VS ") \/ Contains(q, " VS. ")
       THEN DropEmpty(CleanEach(SplitVs(q)))
       ELSE IF Contains(q, " AND ")
       THEN DropEmpty(CleanEach(SplitOn(q, " AND ")))
       ELSE << >>

ExtractStockSymbol(query) == CleanSymbol(RemoveAll(Upper(query), StockPhrases))
ExtractFundName(query) == Strip(RemoveAllIgnoreCase(query, FundPhrases))
ExtractNewsTopic(query) == Strip(RemoveAllIgnoreCase(query, NewsPhrases))
ExtractConcept(query) == RStripQ(Strip(RemoveAllIgnoreCase(query, ConceptPhrases)))

STOCK_ANALYSIS == "stock_analysis"
STOCK_COMPARISON == "stock_comparison"
MF_ANALYSIS == "mf_analysis"
NEWS == "news"
CONCEPT_EXPLANATION == "concept_explanation"
FOLLOWUP == "followup"
UNCLEAR == "unclear"

\* what a call of _classify_intent gives: a returned (intent, params) pair,
\* or the exception it raised
Returned(intent, params) == [exc |-> "", intent |-> intent, params |-> params]
Raised(exc) == [exc |-> exc, intent |-> "", params |-> EmptyDict]

\* the last rule of _classify_intent: query.split()[0] of a query with no token
\* raises IndexError
BareTicker(query) ==
    IF Len(Split(query)) = 0 THEN Raised("IndexError")
    ELSE Returned(STOCK_ANALYSIS, [symbol |-> Upper(Split(query)[1])])

\* the cascade with the news rule tried before the mutual-fund rule
ClassifyNewsFirst(query, context) ==
    LET query_lower == Strip(Lower(query))
        symbols == ExtractComparisonSymbols(query)
    IN IF IsComparison(query_lower) /\ Len(symbols) > 0 THEN Returned(STOCK_COMPARISON, [symbols |-> symbols])
       ELSE IF IsNewsQuery(query_lower) THEN Returned(NEWS, [topic |-> ExtractNewsTopic(query)])
       ELSE IF IsMfQuery(query_lower) THEN Returned(MF_ANALYSIS, [fund_name |-> ExtractFundName(query)])
       ELSE IF IsConceptQuery(query_lower) THEN Returned(CONCEPT_EXPLANATION, [concept |-> ExtractConcept(query)])
       ELSE IF IsStockQuery(query_lower) THEN Returned(STOCK_ANALYSIS, [symbol |-> ExtractStockSymbol(query)])
       ELSE IF NonEmpty(context) /\ IsFollowup(query_lower) THEN Returned(FOLLOWUP, EmptyDict)
       ELSE IF Len(Split(query)) <= 3 THEN BareTicker(query)
       ELSE Returned(UNCLEAR, EmptyDict)

\* the cascade with a follow-up rule that looks at what the last analysis was,
\* not only at whether there was one
ClassifyByContextType(query, context) ==
    LET query_lower == Strip(Lower(query))
        symbols == ExtractComparisonSymbols(query)
    IN IF IsComparison(query_lower) /\ Len(symbols) > 0 THEN Returned(STOCK_COMPARISON, [symbols |-> symbols])
       ELSE IF IsMfQuery(query_lower) THEN Returned(MF_ANALYSIS, [fund_name |-> ExtractFundName(query)])
       ELSE IF IsNewsQuery(query_lower) THEN Returned(NEWS, [topic |-> ExtractNewsTopic(query)])
       ELSE IF IsConceptQuery(query_lower) THEN Returned(CONCEPT_EXPLANATION, [concept |-> ExtractConcept(query)])
       ELSE IF IsStockQuery(query_lower) THEN Returned(STOCK_ANALYSIS, [symbol |-> ExtractStockSymbol(query)])
       ELSE IF NonEmpty(context) /\ context.type = "stock" /\ IsFollowup(query_lower)
       THEN Returned(FOLLOWUP, EmptyDict)
       ELSE IF Len(Split(query)) <= 3 THEN BareTicker(query)
       ELSE Returned(UNCLEAR, EmptyDict)

\* _classify_intent(query) for an orchestrator whose last_context is context
ClassifyIntent(query, context) ==
    LET query_lower == Strip(Lower(query))
        symbols == ExtractComparisonSymbols(query)
    IN IF IsComparison(query_lower) /\ Len(symbols) > 0
           THEN Returned(STOCK_COMPARISON, [symbols |-> symbols])
       ELSE IF IsMfQuery(query_lower)
           THEN Returned(MF_ANALYSIS, [fund_name |-> ExtractFundName(query)])
       ELSE IF IsNewsQuery(query_lower)
           THEN Returned(NEWS, [topic |-> ExtractNewsTopic(query)])
       ELSE IF IsConceptQuery(query_lower)
           THEN Returned(CONCEPT_EXPLANATION, [concept |-> ExtractConcept(query)])
       ELSE IF IsStockQuery(query_lower)
           THEN Returned(STOCK_ANALYSIS, [symbol |-> ExtractStockSymbol(query)])
       ELSE IF NonEmpty(context) /\ IsFollowup(query_lower)
           THEN Returned(FOLLOWUP, EmptyDict)
       ELSE IF Len(Split(query)) <= 3
           THEN BareTicker(query)
       ELSE Returned(UNCLEAR, EmptyDict)

(***************************************************************************)
(* Specialist agents, as the orchestrator sees them                        *)
(***************************************************************************)

\* Python None, for the optional objects of the model (compared with records only)
None == << >>

\* the name Screener reports for a company (tools/screener.py: h1.h2 of the page)
CompanyNames == {"Tata Consultancy Services Ltd"}

\* the scheme name AMFI reports for a fund found by name
SchemeNames == {"Parag Parikh Flexi Cap Fund - Direct"}

\* StockAnalysis(quote, fundamentals): analyze_stock never builds one with neither
StockAnalysis(symbol, name, quote) ==
    [fundamentals |-> IF name = "" THEN None ELSE [symbol |-> Upper(Strip(symbol)), name |-> name],
     quote |-> quote]

\* what analyze_stock(symbol) can give: None (no fundamentals and no quote), an
\* analysis holding fundamentals, a quote or both, or an exception of a tool of
\* its that catches only requests.RequestException
AnalyzeStockOutcomes(symbol) ==
    {[status |-> "none", analysis |-> None], [status |-> "raise", analysis |-> None]}
    \cup {[status |-> "ok", analysis |-> StockAnalysis(symbol, n, qt)] :
            <<n, qt>> \in ((CompanyNames \cup {""}) \X BOOLEAN) \ {<<"", FALSE>>}}

\* symbols[:n]
Take(seq, n) == SubSeq(seq, 1, IF Len(seq) < n THEN Len(seq) ELSE n)

Range(seq) == {seq[k] : k \in 1..Len(seq)}

\* [s for s in seq if s in keep]
RECURSIVE Filter(_, _)
Filter(seq, keep) ==
    IF Len(seq) = 0 THEN << >>
    ELSE (IF Head(seq) \in keep THEN <<Head(seq)>> ELSE << >>) \o Filter(Tail(seq), keep)

MaxCompared == 5

\* compare_stocks looking at every symbol it is given
CompareStocksUncapped(symbols, known) ==
    LET analyses == Filter(symbols, known)
    IN IF Len(analyses) = 0
       THEN [msg |-> "Could not fetch data for any of the specified stocks.", items |-> << >>]
       ELSE [msg |-> "STOCK COMPARISON", items |-> analyses]

\* compare_stocks(symbols), where known is the set of symbols for which
\* analyze_stock gives fundamentals: the columns of the table, in order
CompareStocks(symbols, known) ==
    LET analyses == Filter(Take(symbols, MaxCompared), known)
    IN IF Len(analyses) = 0
       THEN [msg |-> "Could not fetch data for any of the specified stocks.", items |-> << >>]
       ELSE [msg |-> "STOCK COMPARISON", items |-> analyses]

MaxSuggestions == 5

\* lengths of the list search_mutual_funds returns
SearchLengths == {0, 1, MaxSuggestions + 1}

SearchResults(n) == [k \in 1..n |-> [scheme_name |-> "Fund " \o CharAt(Digits, k + 1)]]

(***************************************************************************)
(* Orchestrator: handlers. Each gives the triple returned, the value of    *)
(* last_context after it and the agent functions it called.                *)
(***************************************************************************)

Triple(response, agent, tools) ==
    [status |-> "returned", response |-> response, agent |-> agent, tools |-> tools]

Text(msg) == [msg |-> msg, items |-> << >>]

\* an exception that leaves process_query: nothing is returned
Propagated == [status |-> "raised", response |-> Text(""), agent |-> "", tools |-> << >>]

NoResult == [status |-> "none", response |-> Text(""), agent |-> "", tools |-> << >>]

Handled(ret, context, calls) == [ret |-> ret, context |-> context, calls |-> calls]

\* _handle_stock_analysis recording the symbol asked for even when nothing is found
HandleStockAnalysisRecording(symbol, outcome, context) ==
    IF outcome.status = "raise" THEN Handled(Propagated, context, <<"analyze_stock">>)
    ELSE IF outcome.analysis = None
    THEN Handled(Triple(Text("Sorry, I couldn't find data for '" \o symbol
                             \o "'. Please check the symbol and try again."),
                        "stock_research", << >>),
                 [type |-> "stock", symbol |-> symbol, name |-> symbol], <<"analyze_stock">>)
    ELSE LET f == outcome.analysis.fundamentals
             name == IF f # None THEN f.name ELSE symbol
         IN Handled(Triple([msg |-> "format_stock_analysis",
                            items |-> <<name, IF f # None THEN f.symbol ELSE symbol>>],
                           "stock_research",
                           <<"get_stock_fundamentals", "get_quote", "search_stock_news">>),
                    [type |-> "stock", symbol |-> symbol, name |-> name],
                    <<"analyze_stock">>)

\* _handle_stock_analysis(symbol), analyze_stock giving outcome
HandleStockAnalysis(symbol, outcome, context) ==
    IF outcome.status = "raise" THEN Handled(Propagated, context, <<"analyze_stock">>)
    ELSE IF outcome.analysis = None
    THEN Handled(Triple(Text("Sorry, I couldn't find data for '" \o symbol
                             \o "'. Please check the symbol and try again."),
                        "stock_research", << >>),
                 context, <<"analyze_stock">>)
    ELSE LET f == outcome.analysis.fundamentals
             name == IF f # None THEN f.name ELSE symbol
         IN Handled(Triple([msg |-> "format_stock_analysis",
                            items |-> <<name, IF f # None THEN f.symbol ELSE symbol>>],
                           "stock_research",
                           <<"get_stock_fundamentals", "get_quote", "search_stock_news">>),
                    [type |-> "stock", symbol |-> symbol, name |-> name],
                    <<"analyze_stock">>)

\* _handle_stock_comparison(symbols), compare_stocks raising or finding
\* fundamentals for the symbols in known
HandleStockComparison(symbols, raises, known, context) ==
    IF Len(symbols) < 2
    THEN Handled(Triple(Text("Please specify at least two stocks to compare. Example: 'Compare TCS vs Infosys'"),
                        "stock_research", << >>),
                 context, << >>)
    ELSE IF raises THEN Handled(Propagated, context, <<"compare_stocks">>)
    ELSE Handled(Triple(CompareStocks(symbols, known), "stock_research", <<"get_stock_fundamentals">>),
                 [type |-> "comparison", symbols |-> symbols],
                 <<"compare_stocks">>)

\* _handle_mf_analysis listing every search result it was given
HandleMfAnalysisSuggestingAll(fund_name, raises, found, results, context) ==
    IF raises = "lookup" THEN Handled(Propagated, context, <<"analyze_mutual_fund">>)
    ELSE IF found = ""
    THEN IF raises = "search"
         THEN Handled(Propagated, context, <<"analyze_mutual_fund", "search_mutual_funds">>)
         ELSE IF Len(results) > 0
         THEN Handled(Triple([msg |-> "I couldn't find an exact match for '" \o fund_name
                                      \o "'. Did you mean:",
                              items |-> [k \in 1..Len(results) |-> results[k].scheme_name]],
                             "mf_research", << >>),
                      context, <<"analyze_mutual_fund", "search_mutual_funds">>)
         ELSE Handled(Triple(Text("Sorry, I couldn't find any mutual fund matching '"
                                  \o fund_name \o "'."),
                             "mf_research", << >>),
                      context, <<"analyze_mutual_fund", "search_mutual_funds">>)
    ELSE Handled(Triple([msg |-> "format_mutual_fund_analysis", items |-> <<found>>],
                        "mf_research", <<"get_nav", "search_funds">>),
                 [type |-> "mutual_fund", name |-> found],
                 <<"analyze_mutual_fund">>)

\* _handle_mf_analysis(fund_name): found is the scheme name on a hit, "" on a
\* miss; raises says which of the two agent calls, if any, raises ("lookup",
\* "search" or "")
HandleMfAnalysis(fund_name, raises, found, results, context) ==
    IF raises = "lookup" THEN Handled(Propagated, context, <<"analyze_mutual_fund">>)
    ELSE IF found = ""
    THEN IF raises = "search"
         THEN Handled(Propagated, context, <<"analyze_mutual_fund", "search_mutual_funds">>)
         ELSE IF Len(results) > 0
         THEN Handled(Triple([msg |-> "I couldn't find an exact match for '" \o fund_name
                                      \o "'. Did you mean:",
                              items |-> [k \in 1..Len(Take(results, MaxSuggestions)) |->
                                            results[k].scheme_name]],
                             "mf_research", << >>),
                      context, <<"analyze_mutual_fund", "search_mutual_funds">>)
         ELSE Handled(Triple(Text("Sorry, I couldn't find any mutual fund matching '"
                                  \o fund_name \o "'."),
                             "mf_research", << >>),
                      context, <<"analyze_mutual_fund", "search_mutual_funds">>)
    ELSE Handled(Triple([msg |-> "format_mutual_fund_analysis", items |-> <<found>>],
                        "mf_research", <<"get_nav", "search_funds">>),
                 [type |-> "mutual_fund", name |-> found],
                 <<"analyze_mutual_fund">>)

\* what the news agent gives: stock news, else market news, else nothing, or
\* an exception
NewsOutcomes == {"stock", "market", "none", "raise"}

\* _handle_news(topic)
HandleNews(topic, news, context) ==
    IF news = "raise" THEN Handled(Propagated, context, <<"get_stock_news">>)
    ELSE IF news = "stock"
    THEN Handled(Triple([msg |-> "NEWS", items |-> <<topic>>], "news", <<"search_news">>),
                 context, <<"get_stock_news">>)
    ELSE IF news = "market"
    THEN Handled(Triple(Text("MARKET NEWS"), "news", <<"search_news">>),
                 context, <<"get_stock_news", "get_market_news">>)
    ELSE Handled(Triple(Text("Sorry, I couldn't fetch news at the moment. Please try again."),
                        "news", << >>),
                 context, <<"get_stock_news", "get_market_news">>)

\* get_clarification(query)
Clarification ==
    Text("I'm not sure what you're looking for. You can ask me to: ... What would you like to know?")

\* _handle_concept(concept): explain_concept catches what its client raises
HandleConcept(concept, context) ==
    Handled(Triple([msg |-> "explain_concept", items |-> <<concept>>], "conversation", << >>),
            context, <<"explain_concept">>)

\* _handle_followup forgetting the last analysis once it has been followed up
HandleFollowupForgetting(query, hasConversation, context) ==
    IF ~hasConversation
    THEN Handled(Triple(Clarification, "conversation", << >>), EmptyDict, <<"get_clarification">>)
    ELSE Handled(Triple([msg |-> "handle_followup", items |-> <<query>>], "conversation", << >>),
                 EmptyDict, <<"handle_followup">>)

\* _handle_followup(query) of an orchestrator built with or without a conversation
HandleFollowup(query, hasConversation, context) ==
    IF ~hasConversation
    THEN Handled(Triple(Clarification, "conversation", << >>), context, <<"get_clarification">>)
    ELSE Handled(Triple([msg |-> "handle_followup", items |-> <<query>>], "conversation", << >>),
                 context, <<"handle_followup">>)

HandleUnclear(query, context) ==
    Handled(Triple(Clarification, "conversation", << >>), context, <<"get_clarification">>)

Farewell == Text("Goodbye! Your conversation has been saved.")
HelpText == Text("InvestEz - Your Investment Research Assistant ... Type your question to get started!")

\* _classify_intent was not called
NotClassified == [exc |-> "", intent |-> "not_called", params |-> EmptyDict]

(***************************************************************************)
(* Orchestrator: process_query                                             *)
(***************************************************************************)

\* params.get(key, default)
Get(params, key, default) == IF key \in DOMAIN params THEN params[key] ELSE default

\* no agent was asked
NotAsked == [status |-> "not_asked"]

\* what compare_stocks can meet: an exception, or fundamentals for any subset
\* of the symbols it looks at
CompareOutcomes(symbols) ==
    {[status |-> "raise", known |-> {}]}
    \cup {[status |-> "ok", known |-> k] : k \in SUBSET Range(Take(symbols, MaxCompared))}

\* what the fund lookup and the fund search can give
MfOutcomes ==
    {[status |-> "raise", raises |-> at, found |-> "", results |-> << >>] : at \in {"lookup", "search"}}
    \cup {[status |-> "ok", raises |-> "", found |-> f, results |-> << >>] : f \in SchemeNames}
    \cup {[status |-> "none", raises |-> "", found |-> "", results |-> SearchResults(n)] :
             n \in SearchLengths}

Outcome(gave, handled) == [gave |-> gave, handled |-> handled]

\* every way the route chosen for a classified query can end, over what the
\* agents may give
Dispatch(query, c, context, hasConversation) ==
    IF c.exc # "" THEN {Outcome(NotAsked, Handled(Propagated, context, << >>))}
    ELSE IF c.intent = STOCK_ANALYSIS
    THEN LET symbol == Get(c.params, "symbol", query)
         IN {Outcome(o, HandleStockAnalysis(symbol, o, context)) : o \in AnalyzeStockOutcomes(symbol)}
    ELSE IF c.intent = STOCK_COMPARISON
    THEN LET symbols == Get(c.params, "symbols", << >>)
         IN IF Len(symbols) < 2
            THEN {Outcome(NotAsked, HandleStockComparison(symbols, FALSE, {}, context))}
            ELSE {Outcome(o, HandleStockComparison(symbols, o.status = "raise", o.known, context)) :
                     o \in CompareOutcomes(symbols)}
    ELSE IF c.intent = MF_ANALYSIS
    THEN LET fund_name == Get(c.params, "fund_name", query)
         IN {Outcome(o, HandleMfAnalysis(fund_name, o.raises, o.found, o.results, context)) :
                o \in MfOutcomes}
    ELSE IF c.intent = NEWS
    THEN {Outcome([status |-> n], HandleNews(Get(c.params, "topic", query), n, context)) :
             n \in NewsOutcomes}
    ELSE IF c.intent = CONCEPT_EXPLANATION
    THEN {Outcome(NotAsked, HandleConcept(Get(c.params, "concept", query), context))}
    ELSE IF c.intent = FOLLOWUP
    THEN {Outcome(NotAsked, HandleFollowup(query, hasConversation, context))}
    ELSE {Outcome(NotAsked, HandleUnclear(query, context))}

Ended(classification, outcome) ==
    [classified |-> classification, gave |-> outcome.gave, handled |-> outcome.handled]

\* process_query(raw) on an orchestrator whose last_context is context: every
\* way the call can end, each with the classification made on the way
ProcessOutcomes(raw, context, hasConversation) ==
    LET query == Strip(raw)
    IN IF IsExitCommand(query)
       THEN {Ended(NotClassified,
                   Outcome(NotAsked, Handled(Triple(Farewell, "system", << >>), context, << >>)))}
       ELSE IF IsHelpCommand(query)
       THEN {Ended(NotClassified,
                   Outcome(NotAsked, Handled(Triple(HelpText, "system", << >>), context, << >>)))}
       ELSE UNION {{Ended(c, o) : o \in Dispatch(query, c, context, hasConversation)} :
                      c \in {ClassifyIntent(query, context)}}

(***************************************************************************)
(* The queries a session may receive                                       *)
(***************************************************************************)

RECURSIVE Join(_)
Join(ws) ==
    IF Len(ws) = 0 THEN ""
    ELSE IF Len(ws) = 1 THEN ws[1]
    ELSE ws[1] \o " " \o Join(Tail(ws))

\* tickers, the comparison and follow-up keywords and a two-token plain phrase
Fragments == <<"Tcs", "vs", "why", "thank you">>

MaxFragments == 3

FragmentQueries ==
    UNION {{Join([k \in 1..n |-> Fragments[f[k]]]) : f \in [1..n -> 1..Len(Fragments)]} :
              n \in 0..MaxFragments}

\* one phrase for each rule of the cascade, alone and in every ordered pair
RulePhrases ==
    <<"Tcs vs infy", "mutual fund", "news about", "what is", "tell me about", "why", "Tcs">>

RuleQueries ==
    {RulePhrases[i] : i \in 1..Len(RulePhrases)}
    \cup {RulePhrases[i] \o " " \o RulePhrases[j] : i, j \in 1..Len(RulePhrases)}

\* "X vs Y" over two tickers, bare and after the lead-in word of the help text
Tickers == {"Tcs", "infy"}
LeadIns == {"", "compare "}

PairQueries == {lead \o x \o " vs " \o y : lead \in LeadIns, x \in Tickers, y \in Tickers}

\* the exit and help commands as typed, and padded in upper case
CommandQueries ==
    UNION {{cmd, " " \o Upper(cmd) \o "\t"} : cmd \in Range(ExitCommands) \cup Range(HelpCommands)}

\* the queries of the test suite, of the help text and of the edge cases
ExampleQueries ==
    {"tell me about reliance", "analyze tcs", "how is hdfc bank doing", "stock info infosys",
     "tcs vs infosys", "reliance vs hdfc bank", "TCS vs Infosys", "Reliance vs HDFC",
     "tell me about parag parikh flexi cap", "analyze hdfc mid cap fund",
     "mutual fund axis bluechip", "analyze some fund", "fund",
     "what's happening with reliance", "news about tcs", "latest on adani group", "market news",
     "what is p/e ratio?", "explain roe", "what does debt to equity mean", "define market cap",
     "compare TCS vs Infosys", "TCS versus Infosys", "difference between reliance and hdfc",
     "which is better tcs or infosys", "analyze invalidxyz", "INFY stock",
     "HDFC-BANK", "&", "", "   ", "tcs vs ?", "? vs ?", "Tcs VS. infy", "tcs\tvs\tinfy",
     "tcs and ?", "exit now", "q q", "help me", "it", "why is tcs falling so fast"}

Queries ==
    FragmentQueries \cup RuleQueries \cup PairQueries \cup CommandQueries \cup ExampleQueries

(***************************************************************************)
(* Portfolio service (services/portfolio.py): numbers                      *)
(*                                                                         *)
(* Amounts are integers counted in thousandths of a rupee, so that a       *)
(* product of a quantity and a price can carry a fraction of a paisa;      *)
(* percentages are integers counted in hundredths of a percent. An         *)
(* optional number is << >> for Python None and <<n>> for the number n.    *)
(***************************************************************************)

Some(n) == <<n>>
IsNone(x) == x = << >>
Val(x) == x[1]

\* the integer nearest to n / d for d > 0, a tie going to the even one
RoundDiv(n, d) ==
    LET q == n \div d
        r == n % d
    IN IF 2 * r < d THEN q
       ELSE IF 2 * r > d THEN q + 1
       ELSE IF q % 2 = 0 THEN q ELSE q + 1

\* thousandths in a hundredth
Mills == 10

\* round(x, 2) of an amount
Round2(x) == RoundDiv(x, Mills) * Mills

\* round(n / d * 100, 2), in hundredths of a percent
Percent(n, d) == RoundDiv(n * 10000, d)

\* a call that returned v, and a call that raised exc
Ok(v) == [exc |-> "", val |-> v]
Fail(exc) == [exc |-> exc, val |-> << >>]

RECURSIVE SumOver(_, _)
\* sum(f(x) for x in seq), f given as the sequence of its values
SumOver(vals, k) == IF k = 0 THEN 0 ELSE vals[k] + SumOver(vals, k - 1)

Sum(vals) == SumOver(vals, Len(vals))

(***************************************************************************)
(* Portfolio service: one holding                                          *)
(***************************************************************************)

\* Python None where a category string is expected
NoCategory == ""

\* what get_stock_fundamentals(symbol) can give _enrich_holding: fundamentals
\* with a market_cap_category (None when the page shows no market cap),
\* nothing, or an exception
FundamentalsOutcomes ==
    {[status |-> "ok", category |-> c] : c \in {"Large Cap", "Mid Cap", "Small Cap", NoCategory}}
    \cup {[status |-> "none", category |-> NoCategory], [status |-> "raise", category |-> NoCategory]}

\* the stock holding _enrich_holding builds
Holding(symbol, quantity, avg_price, current_price, value, invested, pnl, pnl_percent, day_change, day_change_percent, market_cap_category, broker) ==
    [symbol |-> symbol, quantity |-> quantity, avg_price |-> avg_price,
     current_price |-> current_price, value |-> value, invested |-> invested,
     pnl |-> pnl, pnl_percent |-> pnl_percent, day_change |-> day_change,
     day_change_percent |-> day_change_percent,
     market_cap_category |-> market_cap_category, broker |-> broker]

\* _enrich_holding(raw, broker), get_stock_fundamentals giving fund. A None
\* last_price fails at quantity * current_price; a None pnl (the key present,
\* as groww.get_holdings writes it) fails at pnl / invested or at round(pnl, 2)
EnrichHolding(raw, broker, fund) ==
    LET quantity == Get(raw, "quantity", 0)
        avg_price == Get(raw, "average_price", 0)
        current_price == Get(raw, "last_price", Some(0))
    IN IF IsNone(current_price) THEN Fail("TypeError")
       ELSE LET value == quantity * Val(current_price)
                invested == quantity * avg_price
                pnl == Get(raw, "pnl", Some(value - invested))
            IN IF IsNone(pnl) THEN Fail("TypeError")
               ELSE Ok(Holding(raw.tradingsymbol, quantity, avg_price, current_price,
                               Round2(value), Round2(invested), Some(Round2(Val(pnl))),
                               Some(IF invested > 0 THEN Percent(Val(pnl), invested) ELSE 0),
                               Get(raw, "day_change", Some(0)),
                               Get(raw, "day_change_percentage", Some(0)),
                               IF fund.status = "ok" THEN fund.category ELSE NoCategory,
                               broker))

\* the category test with the mid-cap rule tried before the small-cap rule
ParseMfMarketCapMidFirst(scheme_name) ==
    LET name_upper == Upper(scheme_name)
    IN IF Contains(name_upper, "MID CAP") \/ Contains(name_upper, "MIDCAP")
       THEN IF Contains(name_upper, "LARGE") THEN "Multi Cap" ELSE "Mid Cap"
       ELSE IF Contains(name_upper, "SMALL CAP") \/ Contains(name_upper, "SMALLCAP")
       THEN "Small Cap"
       ELSE IF Contains(name_upper, "LARGE CAP") \/ Contains(name_upper, "LARGECAP")
       THEN IF Contains(name_upper, "MID") THEN "Multi Cap" ELSE "Large Cap"
       ELSE "Multi Cap"

\* _parse_mf_market_cap(scheme_name)
ParseMfMarketCap(scheme_name) ==
    LET name_upper == Upper(scheme_name)
    IN IF Contains(name_upper, "SMALL CAP") \/ Contains(name_upper, "SMALLCAP")
       THEN "Small Cap"
       ELSE IF Contains(name_upper, "MID CAP") \/ Contains(name_upper, "MIDCAP")
       THEN IF Contains(name_upper, "LARGE") THEN "Multi Cap" ELSE "Mid Cap"
       ELSE IF Contains(name_upper, "LARGE CAP") \/ Contains(name_upper, "LARGECAP")
       THEN IF Contains(name_upper, "MID") THEN "Multi Cap" ELSE "Large Cap"
       ELSE "Multi Cap"

\* what get_mf_day_change gives for a scheme: the NAV change per unit and in
\* percent
NavChanges == {[change |-> 120, change_percent |-> 45], [change |-> 0, change_percent |-> 0]}

\* what the day-change lookup of one fund can meet: no scheme code (nothing
\* found, or the search failed), a scheme code and then no NAV history, a
\* change, or an exception on the way
DayChangeOutcomes ==
    {[status |-> st, change |-> << >>] : st \in {"no_scheme", "no_history", "raise"}}
    \cup {[status |-> "ok", change |-> Some(c)] : c \in NavChanges}

\* the fund holding _process_mf_holding builds
MFHolding(scheme_code, scheme_name, units, avg_nav, current_nav, value, invested, pnl, pnl_percent, day_change, day_change_percent, market_cap_category, broker) ==
    [scheme_code |-> scheme_code, scheme_name |-> scheme_name, units |-> units,
     avg_nav |-> avg_nav, current_nav |-> current_nav, value |-> value,
     invested |-> invested, pnl |-> pnl, pnl_percent |-> pnl_percent,
     day_change |-> day_change, day_change_percent |-> day_change_percent,
     market_cap_category |-> market_cap_category, broker |-> broker]

\* _process_mf_holding(raw, broker), the day-change lookup giving looked; the
\* lookup is made only for a holding with a scheme name
ProcessMfHolding(raw, broker, looked) ==
    LET units == Get(raw, "quantity", 0)
        avg_nav == Get(raw, "average_price", 0)
        current_nav == Get(raw, "last_price", 0)
        value == units * current_nav
        invested == units * avg_nav
        pnl == value - invested
        scheme_name == Get(raw, "fund", Get(raw, "tradingsymbol", ""))
        found == scheme_name # "" /\ looked.status = "ok"
    IN Ok(MFHolding(Get(raw, "tradingsymbol", ""), scheme_name, units, avg_nav, current_nav,
                    Round2(value), Round2(invested), Round2(pnl),
                    IF invested > 0 THEN Percent(pnl, invested) ELSE 0,
                    Some(IF found THEN Round2(Val(looked.change).change * units) ELSE 0),
                    Some(IF found THEN Val(looked.change).change_percent ELSE 0),
                    ParseMfMarketCap(scheme_name), broker))

(***************************************************************************)
(* Broker adapters (tools/kite.py, tools/groww.py)                         *)
(***************************************************************************)

\* what a broker API call can meet: data, an authentication error (the token
\* has expired) or any other error
ApiOutcomes == {"ok", "auth", "error"}

\* the call of an external API, as it is issued
Call(api, symbol) == [api |-> api, symbol |-> symbol]

\* what an adapter gives: the exception it raised or the list it returned, and
\* the API calls it issued on the way
Fetched(exc, val, calls) == [exc |-> exc, val |-> val, calls |-> calls]

\* kite.get_holdings: no session gives [], and so does every exception of the
\* API call, an expired token included
KiteGetHoldings(session, api, held) ==
    IF ~session THEN Fetched("", << >>, << >>)
    ELSE IF api # "ok" THEN Fetched("", << >>, <<Call("kite.holdings", "")>>)
    ELSE Fetched("", held, <<Call("kite.holdings", "")>>)

\* kite.get_mf_holdings, the same way
KiteGetMfHoldings(session, api, held) ==
    IF ~session THEN Fetched("", << >>, << >>)
    ELSE IF api # "ok" THEN Fetched("", << >>, <<Call("kite.mf_holdings", "")>>)
    ELSE Fetched("", held, <<Call("kite.mf_holdings", "")>>)

\* the price map get_portfolio builds from the first k Kite holdings
RECURSIVE PriceMapOver(_, _)
PriceMapOver(held, k) ==
    IF k = 0 THEN << >>
    ELSE LET h == held[k]
             symbol == Get(h, "tradingsymbol", "")
             last_price == Get(h, "last_price", Some(0))
             before == PriceMapOver(held, k - 1)
         IN IF symbol # "" /\ ~IsNone(last_price) /\ Val(last_price) # 0
            THEN [sym \in (DOMAIN before) \cup {symbol} |->
                     IF sym = symbol THEN Val(last_price) ELSE before[sym]]
            ELSE before

PriceMap(held) == PriceMapOver(held, Len(held))

\* what groww.get_quote can give for one symbol
QuoteOutcomes ==
    {[status |-> "price", last_price |-> 6050, day_change |-> 50, day_change_perc |-> 83],
     [status |-> "no_price", last_price |-> 0, day_change |-> 0, day_change_perc |-> 0],
     [status |-> "auth", last_price |-> 0, day_change |-> 0, day_change_perc |-> 0],
     [status |-> "error", last_price |-> 0, day_change |-> 0, day_change_perc |-> 0]}

\* the dict groww.get_holdings appends for one holding
GrowwRaw(h, last_price, day_change, day_change_percentage) ==
    [tradingsymbol |-> h.trading_symbol, trading_symbol |-> h.trading_symbol,
     quantity |-> h.quantity, average_price |-> h.average_price,
     last_price |-> last_price, pnl |-> << >>,
     day_change |-> day_change, day_change_percentage |-> day_change_percentage]

\* the loop of groww.get_holdings over holdings k..Len(held), done the
\* transformed dicts and the calls so far
RECURSIVE GrowwTransform(_, _, _, _, _)
GrowwTransform(held, k, price_map, quotes, done) ==
    IF k > Len(held) THEN done
    ELSE LET h == held[k]
             symbol == h.trading_symbol
         IN IF DOMAIN price_map # {} /\ symbol \in DOMAIN price_map
            THEN GrowwTransform(held, k + 1, price_map, quotes,
                     [done EXCEPT !.val = Append(@, GrowwRaw(h, Some(price_map[symbol]),
                                                             Some(0), Some(0)))])
            ELSE LET quote == quotes[symbol]
                     asked == Append(done.calls, Call("groww.get_quote", symbol))
                 IN IF quote.status = "auth"
                    THEN Fetched("GrowwTokenExpiredError", << >>, asked)
                    ELSE IF quote.status = "price"
                    THEN GrowwTransform(held, k + 1, price_map, quotes,
                             [done EXCEPT !.calls = asked,
                                          !.val = Append(@, GrowwRaw(h, Some(quote.last_price),
                                                                     Some(quote.day_change),
                                                                     Some(quote.day_change_perc)))])
                    ELSE GrowwTransform(held, k + 1, price_map, quotes,
                             [done EXCEPT !.calls = asked,
                                          !.val = Append(@, GrowwRaw(h, << >>, << >>, << >>))])

\* groww.get_holdings asking for a quote of every holding, price map or not
GrowwGetHoldingsQuotingAll(creds, api, held, price_map, quotes) ==
    IF ~creds THEN Fetched("", << >>, << >>)
    ELSE LET asked == <<Call("groww.get_holdings_for_user", "")>>
         IN IF api = "auth" THEN Fetched("GrowwTokenExpiredError", << >>, asked)
            ELSE IF api = "error" THEN Fetched("", << >>, asked)
            ELSE GrowwTransform(held, 1, << >>, quotes, Fetched("", << >>, asked))

\* groww.get_holdings(user_id, price_map): the transformed holdings, or the
\* exception raised, with the API calls issued
GrowwGetHoldings(creds, api, held, price_map, quotes) ==
    IF ~creds THEN Fetched("", << >>, << >>)
    ELSE LET asked == <<Call("groww.get_holdings_for_user", "")>>
         IN IF api = "auth" THEN Fetched("GrowwTokenExpiredError", << >>, asked)
            ELSE IF api = "error" THEN Fetched("", << >>, asked)
            ELSE GrowwTransform(held, 1, price_map, quotes, Fetched("", << >>, asked))

(***************************************************************************)
(* The portfolio service (services/portfolio.py)                           *)
(***************************************************************************)

\* the allocation bucket of a holding
Bucket(h) == IF h.market_cap_category = NoCategory THEN "Unknown" ELSE h.market_cap_category

\* the value a list of holdings has in bucket k
BucketValue(all, k) == Sum([i \in 1..Len(all) |-> IF Bucket(all[i]) = k THEN all[i].value ELSE 0])

\* _calculate_allocation dividing each bucket by the value of every holding,
\* the unknown ones included
CalculateAllocationOverAll(holdings, mf_holdings, stocks_value, mf_value) ==
    LET total == stocks_value + mf_value
        all == holdings \o mf_holdings
        keys == {Bucket(all[i]) : i \in 1..Len(all)} \ {"Unknown"}
        total_all == Sum([i \in 1..Len(all) |-> all[i].value])
    IN [market_cap |-> [k \in keys |-> IF total_all > 0
                                       THEN Percent(BucketValue(all, k), total_all) ELSE 0],
        asset_type |-> IF total > 0
                       THEN [k \in {"Stocks", "Mutual Funds"} |->
                                IF k = "Stocks" THEN Percent(stocks_value, total)
                                ELSE Percent(mf_value, total)]
                       ELSE << >>]

\* _calculate_allocation
CalculateAllocation(holdings, mf_holdings, stocks_value, mf_value) ==
    LET total == stocks_value + mf_value
        all == holdings \o mf_holdings
        keys == {Bucket(all[i]) : i \in 1..Len(all)} \ {"Unknown"}
        total_filtered == Sum([i \in 1..Len(all) |->
                                  IF Bucket(all[i]) = "Unknown" THEN 0 ELSE all[i].value])
    IN [market_cap |-> [k \in keys |-> IF total_filtered > 0
                                       THEN Percent(BucketValue(all, k), total_filtered) ELSE 0],
        asset_type |-> IF total > 0
                       THEN [k \in {"Stocks", "Mutual Funds"} |->
                                IF k = "Stocks" THEN Percent(stocks_value, total)
                                ELSE Percent(mf_value, total)]
                       ELSE << >>]

\* the raw holdings of both brokers, each with its broker, Kite's first
Combined(raw_kite, raw_groww) ==
    [i \in 1..Len(raw_kite) |-> [raw |-> raw_kite[i], broker |-> "kite"]]
    \o [i \in 1..Len(raw_groww) |-> [raw |-> raw_groww[i], broker |-> "groww"]]

\* a list comprehension over calls that may raise: the first exception, or
\* the list of the values
Collect(made) ==
    IF \E i \in 1..Len(made) : made[i].exc # ""
    THEN Fail(made[CHOOSE i \in 1..Len(made) :
                       /\ made[i].exc # ""
                       /\ \A j \in 1..(i - 1) : made[j].exc = ""].exc)
    ELSE Ok([i \in 1..Len(made) |-> made[i].val])

\* [_enrich_holding(h, broker) for h, broker in all_raw_holdings]
EnrichAll(all_raw, fund) ==
    Collect([i \in 1..Len(all_raw) |->
                EnrichHolding(all_raw[i].raw, all_raw[i].broker, fund[all_raw[i].raw.tradingsymbol])])

\* [_process_mf_holding(m, "kite") for m in raw_mf]
ProcessAllMf(raw_mf, looked) ==
    Collect([i \in 1..Len(raw_mf) |->
                ProcessMfHolding(raw_mf[i], "kite",
                                 looked[Get(raw_mf[i], "fund", Get(raw_mf[i], "tradingsymbol", ""))])])

\* sum(quantity * last_price) over raw holdings: a TypeError when a price is None
RawValue(raws) ==
    IF \E i \in 1..Len(raws) : IsNone(Get(raws[i], "last_price", Some(0)))
    THEN Fail("TypeError")
    ELSE Ok(Sum([i \in 1..Len(raws) |->
                    Get(raws[i], "quantity", 0) * Val(Get(raws[i], "last_price", Some(0)))]))

\* sum(h.day_change * h.quantity for h in holdings)
StocksDayChange(holdings) ==
    IF \E i \in 1..Len(holdings) : IsNone(holdings[i].day_change)
    THEN Fail("TypeError")
    ELSE Ok(Sum([i \in 1..Len(holdings) |-> Val(holdings[i].day_change) * holdings[i].quantity]))

\* the summary taking the total P&L as total value less total invested
SummarisePnlFromValue(stocks_value, mf_value, holdings, mf_holdings, stocks_day_change) ==
    LET total_value == stocks_value + mf_value
        stocks_invested == Sum([i \in 1..Len(holdings) |-> holdings[i].invested])
        mf_invested == Sum([i \in 1..Len(mf_holdings) |-> mf_holdings[i].invested])
        total_invested == stocks_invested + mf_invested
        stocks_pnl == Sum([i \in 1..Len(holdings) |-> Val(holdings[i].pnl)])
        mf_pnl == Sum([i \in 1..Len(mf_holdings) |-> mf_holdings[i].pnl])
        total_pnl == total_value - total_invested
        mf_day_change == Sum([i \in 1..Len(mf_holdings) |-> Val(mf_holdings[i].day_change)])
        day_pnl == stocks_day_change + mf_day_change
    IN [total_value |-> Round2(total_value),
        total_invested |-> Round2(total_invested),
        total_pnl |-> Round2(total_pnl),
        total_pnl_percent |-> IF total_invested > 0 THEN Percent(total_pnl, total_invested) ELSE 0,
        day_pnl |-> Round2(day_pnl),
        day_pnl_percent |-> IF total_value > 0 THEN Percent(day_pnl, total_value) ELSE 0,
        stocks_value |-> Round2(stocks_value),
        mf_value |-> Round2(mf_value),
        stocks_invested |-> Round2(stocks_invested),
        mf_invested |-> Round2(mf_invested),
        stocks_pnl |-> Round2(stocks_pnl),
        mf_pnl |-> Round2(mf_pnl),
        stocks_day_change |-> Round2(stocks_day_change),
        mf_day_change |-> Round2(mf_day_change),
        holdings_count |-> Len(holdings),
        mf_count |-> Len(mf_holdings)]

\* PortfolioSummary(...), every amount rounded to two decimals
Summarise(stocks_value, mf_value, holdings, mf_holdings, stocks_day_change) ==
    LET total_value == stocks_value + mf_value
        stocks_invested == Sum([i \in 1..Len(holdings) |-> holdings[i].invested])
        mf_invested == Sum([i \in 1..Len(mf_holdings) |-> mf_holdings[i].invested])
        total_invested == stocks_invested + mf_invested
        stocks_pnl == Sum([i \in 1..Len(holdings) |-> Val(holdings[i].pnl)])
        mf_pnl == Sum([i \in 1..Len(mf_holdings) |-> mf_holdings[i].pnl])
        total_pnl == stocks_pnl + mf_pnl
        mf_day_change == Sum([i \in 1..Len(mf_holdings) |-> Val(mf_holdings[i].day_change)])
        day_pnl == stocks_day_change + mf_day_change
    IN [total_value |-> Round2(total_value),
        total_invested |-> Round2(total_invested),
        total_pnl |-> Round2(total_pnl),
        total_pnl_percent |-> IF total_invested > 0 THEN Percent(total_pnl, total_invested) ELSE 0,
        day_pnl |-> Round2(day_pnl),
        day_pnl_percent |-> IF total_value > 0 THEN Percent(day_pnl, total_value) ELSE 0,
        stocks_value |-> Round2(stocks_value),
        mf_value |-> Round2(mf_value),
        stocks_invested |-> Round2(stocks_invested),
        mf_invested |-> Round2(mf_invested),
        stocks_pnl |-> Round2(stocks_pnl),
        mf_pnl |-> Round2(mf_pnl),
        stocks_day_change |-> Round2(stocks_day_change),
        mf_day_change |-> Round2(mf_day_change),
        holdings_count |-> Len(holdings),
        mf_count |-> Len(mf_holdings)]

\* what a call of the service gave: the exception it raised or the value it
\* returned (<< >> for None, <<v>> for a value v), with the broker calls issued
Gave(exc, val, calls) == [exc |-> exc, val |-> val, calls |-> calls]

\* the part of get_portfolio after the fetches (lines 217-284)
BuildPortfolio(raw_kite, raw_mf, raw_groww, fund, looked, calls) ==
    LET all_raw == Combined(raw_kite, raw_groww)
        raws == [i \in 1..Len(all_raw) |-> all_raw[i].raw]
        stocks_value == RawValue(raws)
        mf_value == Sum([i \in 1..Len(raw_mf) |->
                            Get(raw_mf[i], "quantity", 0) * Get(raw_mf[i], "last_price", 0)])
        holdings == EnrichAll(all_raw, fund)
        mf_holdings == ProcessAllMf(raw_mf, looked)
    IN IF Len(all_raw) = 0 /\ Len(raw_mf) = 0 THEN Gave("", << >>, calls)
       ELSE IF stocks_value.exc # "" THEN Gave(stocks_value.exc, << >>, calls)
       ELSE IF holdings.exc # "" THEN Gave(holdings.exc, << >>, calls)
       ELSE IF mf_holdings.exc # "" THEN Gave(mf_holdings.exc, << >>, calls)
       ELSE LET stocks_day_change == StocksDayChange(holdings.val)
            IN IF stocks_day_change.exc # "" THEN Gave(stocks_day_change.exc, << >>, calls)
               ELSE Gave("", Some([summary |-> Summarise(stocks_value.val, mf_value, holdings.val,
                                                         mf_holdings.val, stocks_day_change.val),
                                   holdings |-> holdings.val,
                                   mf_holdings |-> mf_holdings.val,
                                   allocation |-> CalculateAllocation(holdings.val, mf_holdings.val,
                                                                      stocks_value.val, mf_value)]),
                         calls)

\* get_portfolio in a world w: what the brokers hold and how their APIs and
\* the enrichment lookups answer
GetPortfolio(w) ==
    LET kite == KiteGetHoldings(w.kite_session, w.kite_api, w.kite_held)
        mf == KiteGetMfHoldings(w.kite_session, w.mf_api, w.mf_held)
    IN IF kite.exc # "" THEN Gave(kite.exc, << >>, kite.calls)
       ELSE IF mf.exc # "" THEN Gave(mf.exc, << >>, kite.calls \o mf.calls)
       ELSE LET groww == GrowwGetHoldings(w.groww_creds, w.groww_api, w.groww_held,
                                          PriceMap(kite.val), w.quotes)
                calls == kite.calls \o mf.calls \o groww.calls
            IN IF groww.exc # "" THEN Gave(groww.exc, << >>, calls)
               ELSE BuildPortfolio(kite.val, mf.val, groww.val, w.fund, w.looked, calls)

\* get_holdings_only in a world w
GetHoldingsOnly(w) ==
    LET kite == KiteGetHoldings(w.kite_session, w.kite_api, w.kite_held)
    IN IF kite.exc # "" THEN Gave(kite.exc, << >>, kite.calls)
       ELSE LET groww == GrowwGetHoldings(w.groww_creds, w.groww_api, w.groww_held,
                                          PriceMap(kite.val), w.quotes)
                calls == kite.calls \o groww.calls
            IN IF groww.exc # "" THEN Gave(groww.exc, << >>, calls)
               ELSE LET holdings == EnrichAll(Combined(kite.val, groww.val), w.fund)
                    IN IF holdings.exc # "" THEN Gave(holdings.exc, << >>, calls)
                       ELSE Gave("", Some(holdings.val), calls)

\* get_mf_only in a world w: _process_mf_holding is called without its broker
\* argument, a TypeError at the first fund
GetMfOnly(w) ==
    LET mf == KiteGetMfHoldings(w.kite_session, w.mf_api, w.mf_held)
    IN IF mf.exc # "" THEN Gave(mf.exc, << >>, mf.calls)
       ELSE IF Len(mf.val) = 0 THEN Gave("", Some(<< >>), mf.calls)
       ELSE Gave("TypeError", << >>, mf.calls)

\* the /holdings route around get_holdings_only: the response and its status
HoldingsRoute(w) ==
    LET got == GetHoldingsOnly(w)
    IN IF got.exc = "" THEN [status |-> 200, success |-> TRUE, error_type |-> "", got |-> got]
       ELSE IF got.exc = "KiteTokenExpiredError"
       THEN [status |-> 401, success |-> FALSE, error_type |-> "kite_token_expired", got |-> got]
       ELSE IF got.exc = "GrowwTokenExpiredError"
       THEN [status |-> 401, success |-> FALSE, error_type |-> "groww_token_expired", got |-> got]
       ELSE [status |-> 500, success |-> FALSE, error_type |-> "", got |-> got]

(***************************************************************************)
(* What the brokers hold and how the lookups answer                        *)
(***************************************************************************)

\* the sublist of cands at the positions in at, in the order of cands
RECURSIVE Pick(_, _)
Pick(cands, at) ==
    IF at = {} THEN << >>
    ELSE LET m == CHOOSE i \in at : \A j \in at : i <= j
         IN <<cands[m]>> \o Pick(cands, at \ {m})

\* the lists of at most n of the candidates
SubLists(cands, n) ==
    {Pick(cands, at) : at \in {t \in SUBSET (1..Len(cands)) : Cardinality(t) <= n}}

\* the most holdings one broker returns
MaxHeld == 2

\* holdings as kite.holdings() returns them: one with the P&L and the day
\* change Kite reports and a price carrying a fraction of a paisa, one with
\* neither field, one of no value; average prices carry fractions of a paisa,
\* as averages over several purchases do
KiteRaws ==
    <<[tradingsymbol |-> "TCS", quantity |-> 2, average_price |-> 10003,
       last_price |-> Some(12004), pnl |-> Some(3900),
       day_change |-> Some(150), day_change_percentage |-> Some(125)],
      [tradingsymbol |-> "INFY", quantity |-> 3, average_price |-> 15002,
       last_price |-> Some(14000)],
      [tradingsymbol |-> "ITC", quantity |-> 0, average_price |-> 0,
       last_price |-> Some(0), pnl |-> Some(0),
       day_change |-> Some(0), day_change_percentage |-> Some(0)]>>

\* fund holdings as kite.mf_holdings() returns them: one with a P&L Kite
\* reports, one without, one with no name and nothing invested
MfRaws ==
    <<[tradingsymbol |-> "INF01", fund |-> "XYZ Small Cap Fund", quantity |-> 3,
       average_price |-> 5000, last_price |-> 5002, pnl |-> 999],
      [tradingsymbol |-> "INF02", fund |-> "ABC Large and Mid Cap Fund", quantity |-> 10,
       average_price |-> 2000, last_price |-> 1800],
      [tradingsymbol |-> "", quantity |-> 5, average_price |-> 0, last_price |-> 1000]>>

\* holdings as groww.get_holdings_for_user() returns them: one of a stock
\* Kite holds too, one of a stock only Groww holds
GrowwRaws ==
    <<[trading_symbol |-> "TCS", quantity |-> 1, average_price |-> 11000],
      [trading_symbol |-> "WIPRO", quantity |-> 4, average_price |-> 5000]>>

Symbols == {"TCS", "INFY", "ITC", "WIPRO"}

SchemeNamesHeld == {Get(MfRaws[i], "fund", Get(MfRaws[i], "tradingsymbol", "")) : i \in 1..Len(MfRaws)}

\* one fetch of a broker API: the list it holds, or the error it meets
\* while it holds the first candidate
Fetches(cands) ==
    {[api |-> "ok", held |-> h] : h \in SubLists(cands, MaxHeld)}
    \cup {[api |-> a, held |-> <<cands[1]>>] : a \in ApiOutcomes \ {"ok"}}

\* Kite: no session, or a session and the two fetches
KiteSides ==
    {[session |-> FALSE, stocks |-> [api |-> "ok", held |-> << >>],
      funds |-> [api |-> "ok", held |-> << >>]]}
    \cup {[session |-> TRUE, stocks |-> s, funds |-> f] : s \in Fetches(KiteRaws), f \in Fetches(MfRaws)}

\* the quote API answering every symbol alike
Quotes(q) == [s \in Symbols |-> q]

\* Groww: no credentials, or a session and the fetch; the quote API is asked
\* only about holdings that were fetched
GrowwSides ==
    {[creds |-> FALSE, fetch |-> [api |-> "ok", held |-> << >>],
      quotes |-> Quotes(CHOOSE q \in QuoteOutcomes : q.status = "price")]}
    \cup UNION {{[creds |-> TRUE, fetch |-> f, quotes |-> Quotes(q)] :
                    q \in {x \in QuoteOutcomes :
                              x.status = "price" \/ (f.api = "ok" /\ f.held # << >>)}} :
                f \in Fetches(GrowwRaws)}

\* the category Screener has for each stock
Categories == [s \in Symbols |-> IF s = "INFY" THEN "Mid Cap"
                                 ELSE IF s = "ITC" THEN "Small Cap" ELSE "Large Cap"]

\* the fundamentals lookups: all answered, or failing for one stock or for all
FundWorlds ==
    {[s \in Symbols |-> IF s = "TCS" THEN o ELSE [status |-> "ok", category |-> Categories[s]]] :
        o \in {x \in FundamentalsOutcomes : x.category \in {NoCategory, Categories["TCS"]}}}
    \cup {[s \in Symbols |-> [status |-> "none", category |-> NoCategory]]}

\* the day-change lookups: one answer for every fund, or failing for one fund
LookedWorlds ==
    {[n \in SchemeNamesHeld |-> o] :
        o \in {x \in DayChangeOutcomes : x.status = "ok" => Val(x.change).change # 0}}
    \cup {[n \in SchemeNamesHeld |->
              IF n = "XYZ Small Cap Fund" THEN [status |-> "raise", change |-> << >>]
              ELSE [status |-> "ok", change |-> Some(CHOOSE c \in NavChanges : c.change # 0)]]}

World(k, g, fund, looked) ==
    [kite_session |-> k.session, kite_api |-> k.stocks.api, kite_held |-> k.stocks.held,
     mf_api |-> k.funds.api, mf_held |-> k.funds.held,
     groww_creds |-> g.creds, groww_api |-> g.fetch.api, groww_held |-> g.fetch.held,
     quotes |-> g.quotes, fund |-> fund, looked |-> looked]

Worlds == {World(k, g, fund, looked) : k \in KiteSides, g \in GrowwSides,
                                       fund \in FundWorlds, looked \in LookedWorlds}

\* the worlds of a request for stock holdings only: no fund is fetched
StockWorlds == {w \in Worlds : w.mf_held = << >> /\ w.mf_api = "ok"
                               /\ w.looked = CHOOSE l \in LookedWorlds : TRUE}

\* words of scheme names, in the letter cases fund houses use
Words == <<"Small", "mid", "LARGE", "Cap", "Smallcap", "MIDCAP", "Fund">>

MaxWords == 3

FundNames ==
    UNION {{Join([k \in 1..n |-> Words[f[k]]]) : f \in [1..n -> 1..Len(Words)]} : n \in 0..MaxWords}
    \cup SchemeNamesHeld \cup {"PPFAS Flexi Cap Fund", "Axis Largecap ELSS"}

(***************************************************************************)
(* One orchestrator and its caller                                         *)
(***************************************************************************)

VARIABLES
    pc,              \* "idle": between calls; "done": process_query has just ended
    last_context,    \* Orchestrator.last_context
    conversation,    \* whether the orchestrator was built with a Conversation
    query,           \* the argument of the call that has just ended
    context_before,  \* last_context when that call started
    classified,      \* what _classify_intent gave in that call
    calls,           \* the agent functions that call invoked, in order
    gave,            \* what the agents gave to that call
    result,          \* what that call returned, or that it raised
    pf_pc,           \* "idle": no portfolio request; "done": one has just ended
    pf_op,           \* the operation of the portfolio service that has just ended
    pf_world,        \* what the brokers held and how the lookups answered in it
    pf_out,          \* what it gave
    now,             \* time.time(), in tenths of a second
    last_request_time, \* _last_request_time of each rate-limited adapter module
    requests,        \* per source, the last two requests sent to it: when and by whom
    hours,           \* datetime.now(), in hours
    cache_files,     \* the file of each key of the fundamentals cache
    fetch_out,       \* the last call of get_stock_fundamentals: what it met and gave
    broker_credentials, \* the rows of table broker_credentials, by user and broker
    running,         \* the CLI loop has not left its while True
    cli_input,       \* the last line typed, stripped
    messages,        \* len(conversation.messages)
    saved,           \* len(conversation.messages) at the last save_conversation, -1 before any
    shown            \* the last response printed after "InvestEz:"

orchestrator_vars ==
    <<pc, last_context, conversation, query, context_before, classified, calls, gave, result>>

portfolio_vars == <<pf_pc, pf_op, pf_world, pf_out>>

limiter_vars == <<now, last_request_time, requests>>

\* the state of the adapters and of the programs around the two services
cache_vars == <<hours, cache_files, fetch_out>>

credential_vars == <<broker_credentials>>

cli_vars == <<running, cli_input, messages, saved, shown>>

adapter_vars == <<limiter_vars, cache_vars, credential_vars, cli_vars>>

beside_limiter == <<orchestrator_vars, portfolio_vars, cache_vars, credential_vars, cli_vars>>
beside_cache == <<orchestrator_vars, portfolio_vars, limiter_vars, credential_vars, cli_vars>>
beside_credentials == <<orchestrator_vars, portfolio_vars, limiter_vars, cache_vars, cli_vars>>
beside_cli == <<portfolio_vars, limiter_vars, cache_vars, credential_vars>>

vars == <<orchestrator_vars, portfolio_vars, adapter_vars>>

\* SCREENER_RATE_LIMIT_DELAY and RATE_LIMIT_DELAY, in tenths of a second
ScreenerDelay == 10
MfApiDelay == 5
Sources == {"screener", "mfapi"}
Delay(source) == IF source = "screener" THEN ScreenerDelay ELSE MfApiDelay

\* the clock when the program starts: further from 0, the initial watermark,
\* than any delay
Epoch == ScreenerDelay + MfApiDelay
MaxTicks == 8
MaxClock == Epoch + MaxTicks

NoWorld == [scheme_name |-> ""]

(***************************************************************************)
(* Fundamentals cache: storage/cache.py and tools/screener.py              *)
(***************************************************************************)

CACHE_TTL_HOURS == 24
\* the clock is read every StepHours hours, MaxSteps times
StepHours == 8
MaxSteps == 4
MaxHours == StepHours * MaxSteps

\* the "cached_at" of a cache file: an ISO time, absent, or not a string
Iso(t) == [form |-> "iso", at |-> t]
NoStamp == [form |-> "absent", at |-> 0]
NumberStamp == [form |-> "number", at |-> 0]

\* the "data" of a cache file: a dumped StockFundamentals, absent, or a dict
\* that is not one
NoData == [form |-> "absent", symbol |-> "", fetched_at |-> 0]
OtherData == [form |-> "other", symbol |-> "", fetched_at |-> 0]

\* StockFundamentals(symbol=..., fetched_at=datetime.now(), source="screener.in")
StockFundamentals(symbol, t) == [symbol |-> symbol, fetched_at |-> t, source |-> "screener.in"]

\* fundamentals.model_dump(mode="json")
ModelDump(f) == [form |-> "dump", symbol |-> f.symbol, fetched_at |-> f.fetched_at]

\* StockFundamentals(**cached)
Validate(data) ==
    IF data.form = "dump"
    THEN Ok(Some(StockFundamentals(data.symbol, data.fetched_at)))
    ELSE Fail("ValidationError")

\* a cache file: none, text that is not JSON, JSON that is not an object, or
\* a JSON object
NoFile == [kind |-> "missing", cached_at |-> NoStamp, data |-> NoData]
Truncated == [kind |-> "not_json", cached_at |-> NoStamp, data |-> NoData]
NotObject == [kind |-> "not_object", cached_at |-> NoStamp, data |-> NoData]
Entry(stamp, data) == [kind |-> "object", cached_at |-> stamp, data |-> data]

\* is_cache_valid(cache_path) at time t
IsCacheValid(file, t) ==
    IF file.kind = "missing" THEN Ok(FALSE)
    ELSE IF file.kind = "not_json" THEN Ok(FALSE)
    ELSE IF file.kind = "not_object" THEN Fail("AttributeError")
    ELSE IF file.cached_at.form = "absent" THEN Ok(FALSE)
    ELSE IF file.cached_at.form = "number" THEN Fail("TypeError")
    ELSE Ok(t < file.cached_at.at + CACHE_TTL_HOURS)

\* get_cached("fundamentals", key) at time t
GetCached(file, t) ==
    LET valid == IsCacheValid(file, t)
    IN IF valid.exc # "" THEN Fail(valid.exc)
       ELSE IF ~valid.val THEN Ok(None)
       ELSE IF file.data.form = "absent" THEN Ok(None)
       ELSE Ok(Some(file.data))

\* what _get_page gives: a page, or None
PageOutcomes == {"page", "none"}

Fetch(out, files, page_requested) == [out |-> out, files |-> files, page_requested |-> page_requested]

\* get_stock_fundamentals(symbol, force_refresh) at time t over the cache files
GetStockFundamentals(symbol, force_refresh, page, files, t) ==
    LET cache_key == Strip(Upper(symbol))
        cached == IF force_refresh THEN Ok(None) ELSE GetCached(files[cache_key], t)
        fundamentals == StockFundamentals(cache_key, t)
    IN IF cached.exc # "" THEN Fetch(Fail(cached.exc), files, FALSE)
       ELSE IF cached.val # None THEN Fetch(Validate(Val(cached.val)), files, FALSE)
       ELSE IF page = "none" THEN Fetch(Ok(None), files, TRUE)
       ELSE Fetch(Ok(Some(fundamentals)),
                  [files EXCEPT ![cache_key] = Entry(Iso(t), ModelDump(fundamentals))], TRUE)

CacheKeys == {"TCS"}
AskedSymbols == {"TCS", " tcs"}

\* no call of get_stock_fundamentals yet
NoFetch ==
    [op |-> "", symbol |-> "", force_refresh |-> FALSE, page |-> "none", at |-> 0,
     before |-> NoFile, got |-> Fetch(Ok(None), [key \in CacheKeys |-> NoFile], FALSE)]

(***************************************************************************)
(* Broker credentials: api/routes/brokers.py, api/routes/auth.py and       *)
(* tools/groww.py over table broker_credentials                            *)
(***************************************************************************)

Users == {1, 2}
Brokers == {"kite", "groww"}

\* no row for a (user, broker)
NoRow == [present |-> FALSE, status |-> "", access_token_encrypted |-> FALSE,
          totp_secret_encrypted |-> FALSE]

\* INSERT INTO broker_credentials (..., status) VALUES (..., 'configured')
NewRow == [present |-> TRUE, status |-> "configured", access_token_encrypted |-> FALSE,
           totp_secret_encrypted |-> FALSE]

\* UPDATE ... SET access_token_encrypted = ?, status = 'authenticated'
WithToken(row) == [row EXCEPT !.access_token_encrypted = TRUE, !.status = "authenticated"]

\* UPDATE ... SET access_token_encrypted = NULL, status = 'configured'
Cleared(row) == [row EXCEPT !.access_token_encrypted = FALSE, !.status = "configured"]

\* Orchestrator.__init__
Init ==
    /\ pc = "idle"
    /\ last_context = EmptyDict
    /\ conversation \in BOOLEAN
    /\ query = ""
    /\ context_before = EmptyDict
    /\ classified = NotClassified
    /\ calls = << >>
    /\ gave = NotAsked
    /\ result = NoResult
    /\ pf_pc = "idle"
    /\ pf_op = ""
    /\ pf_world = NoWorld
    /\ pf_out = Gave("", << >>, << >>)
    /\ now = Epoch
    /\ last_request_time = [source \in Sources |-> 0]
    /\ requests = [source \in Sources |-> << >>]
    /\ hours = 0
    /\ cache_files = [key \in CacheKeys |-> NoFile]
    /\ fetch_out = NoFetch
    /\ broker_credentials = [u \in Users |-> [b \in Brokers |-> NoRow]]
    /\ running = TRUE
    /\ cli_input = ""
    /\ messages = 0
    /\ saved = -1
    /\ shown = Text("")

\* one call of process_query, from its first line to its return or its raise
ProcessQuery(raw) ==
    /\ pc = "idle"
    /\ \E o \in ProcessOutcomes(raw, last_context, conversation) :
          /\ last_context' = o.handled.context
          /\ classified' = o.classified
          /\ calls' = o.handled.calls
          /\ gave' = o.gave
          /\ result' = o.handled.ret
    /\ query' = raw
    /\ context_before' = last_context
    /\ pc' = "done"
    /\ UNCHANGED <<conversation, portfolio_vars, adapter_vars>>

\* the caller takes the result (or the exception); the orchestrator keeps
\* nothing of the call but last_context
Return ==
    /\ pc = "done"
    /\ pc' = "idle"
    /\ query' = ""
    /\ context_before' = EmptyDict
    /\ classified' = NotClassified
    /\ calls' = << >>
    /\ gave' = NotAsked
    /\ result' = NoResult
    /\ UNCHANGED <<last_context, conversation, portfolio_vars, adapter_vars>>

Next ==
    \/ \E raw \in Queries : ProcessQuery(raw)
    \/ Return

Spec == Init /\ [][Next]_vars

\* one call of get_portfolio, from the Kite fetch to the return or the raise
GetPortfolioCall ==
    /\ pf_pc = "idle"
    /\ pf_pc' = "done"
    /\ pf_op' = "get_portfolio"
    /\ \E w \in Worlds :
          /\ pf_world' = w
          /\ pf_out' = GetPortfolio(w)
    /\ UNCHANGED <<orchestrator_vars, adapter_vars>>

\* one GET /holdings
HoldingsRouteCall ==
    /\ pf_pc = "idle"
    /\ pf_pc' = "done"
    /\ pf_op' = "holdings_route"
    /\ \E w \in StockWorlds :
          /\ pf_world' = w
          /\ pf_out' = HoldingsRoute(w)
    /\ UNCHANGED <<orchestrator_vars, adapter_vars>>

\* one call of get_mf_only
GetMfOnlyCall ==
    /\ pf_pc = "idle"
    /\ pf_pc' = "done"
    /\ pf_op' = "get_mf_only"
    /\ \E w \in Worlds :
          /\ pf_world' = w
          /\ pf_out' = GetMfOnly(w)
    /\ UNCHANGED <<orchestrator_vars, adapter_vars>>

\* one call of _parse_mf_market_cap
ParseMfMarketCapCall ==
    /\ pf_pc = "idle"
    /\ pf_pc' = "done"
    /\ pf_op' = "parse_mf_market_cap"
    /\ \E scheme_name \in FundNames :
          /\ pf_world' = [scheme_name |-> scheme_name]
          /\ pf_out' = Gave("", Some(ParseMfMarketCap(scheme_name)), << >>)
    /\ UNCHANGED <<orchestrator_vars, adapter_vars>>

\* the caller takes what the service gave; the service keeps nothing
PortfolioReturn ==
    /\ pf_pc = "done"
    /\ pf_pc' = "idle"
    /\ pf_op' = ""
    /\ pf_world' = NoWorld
    /\ pf_out' = Gave("", << >>, << >>)
    /\ UNCHANGED <<orchestrator_vars, adapter_vars>>

PortfolioNext ==
    \/ GetPortfolioCall
    \/ HoldingsRouteCall
    \/ GetMfOnlyCall
    \/ ParseMfMarketCapCall
    \/ PortfolioReturn

\* the portfolio service alone: no orchestrator takes a query
PortfolioInit == Init /\ ~conversation

PortfolioSpec == PortfolioInit /\ [][PortfolioNext]_vars

(***************************************************************************)
(* The agents' tools, called directly                                      *)
(***************************************************************************)

\* symbols a caller may ask to compare, and the most it asks for at once
Listed == <<"TCS", "INFY", "WIPRO", "HCLTECH", "LT", "ITC", "SBIN">>

MaxListed == 6

\* one call of compare_stocks(symbols), analyze_stock giving fundamentals for
\* the symbols in known
CompareStocksCall ==
    /\ pf_pc = "idle"
    /\ pf_pc' = "done"
    /\ pf_op' = "compare_stocks"
    /\ \E symbols \in SubLists(Listed, MaxListed) :
          \E known \in SUBSET Range(symbols) :
             /\ pf_world' = [symbols |-> symbols, known |-> known]
             /\ pf_out' = Gave("", Some(CompareStocks(symbols, known)), << >>)
    /\ UNCHANGED <<orchestrator_vars, adapter_vars>>

ToolsNext ==
    \/ CompareStocksCall
    \/ PortfolioReturn

ToolsSpec == PortfolioInit /\ [][ToolsNext]_vars

(***************************************************************************)
(* Rate limiting of the scraped sources: tools/screener.py, tools/mfapi.py *)
(* and tools/mf_isin_mapper.py                                             *)
(***************************************************************************)

\* the last two of a list
LastTwo(s) == IF Len(s) <= 2 THEN s ELSE <<s[Len(s) - 1], s[Len(s)]>>

\* _rate_limit() of a module followed by its requests.get: sleep out what is
\* left of the delay, move the watermark, send
Throttled(source, path) ==
    LET elapsed == now - last_request_time[source]
        woken == IF elapsed < Delay(source) THEN now + (Delay(source) - elapsed) ELSE now
    IN /\ woken <= MaxClock
       /\ now' = woken
       /\ last_request_time' = [last_request_time EXCEPT ![source] = woken]
       /\ requests' = [requests EXCEPT ![source] =
                          LastTwo(Append(@, [at |-> woken, path |-> path, throttled |-> TRUE]))]
       /\ UNCHANGED beside_limiter

\* a requests.get with no _rate_limit() before it
Unthrottled(source, path) ==
    /\ requests' = [requests EXCEPT ![source] =
                       LastTwo(Append(@, [at |-> now, path |-> path, throttled |-> FALSE]))]
    /\ UNCHANGED <<now, last_request_time, beside_limiter>>

\* screener._get_page
ScreenerGetPage == Throttled("screener", "_get_page")

\* screener.search_stock
ScreenerSearchStock == Throttled("screener", "search_stock")

\* mfapi.get_mf_nav on a cache miss
MfApiGetNav == Throttled("mfapi", "get_mf_nav")

\* mfapi.get_mf_historical_nav on a cache miss
MfApiGetHistoricalNav == Throttled("mfapi", "get_mf_historical_nav")

\* mf_isin_mapper.get_scheme_code_from_fund_name on a cache miss
MapperSearch == Unthrottled("mfapi", "get_scheme_code_from_fund_name")

\* time passes between two requests
Tick ==
    /\ now < MaxClock
    /\ now' = now + 1
    /\ UNCHANGED <<last_request_time, requests, beside_limiter>>

LimiterNext ==
    \/ ScreenerGetPage
    \/ ScreenerSearchStock
    \/ MfApiGetNav
    \/ MfApiGetHistoricalNav
    \/ MapperSearch
    \/ Tick

LimiterSpec == PortfolioInit /\ [][LimiterNext]_vars

(***************************************************************************)
(* Calls of get_stock_fundamentals over a cache directory that ages and    *)
(* may be damaged                                                          *)
(***************************************************************************)

GetStockFundamentalsCall ==
    \E symbol \in AskedSymbols, force_refresh \in BOOLEAN, page \in PageOutcomes :
       LET got == GetStockFundamentals(symbol, force_refresh, page, cache_files, hours)
       IN /\ cache_files' = got.files
          /\ fetch_out' = [op |-> "get_stock_fundamentals", symbol |-> symbol,
                           force_refresh |-> force_refresh, page |-> page, at |-> hours,
                           before |-> cache_files[Strip(Upper(symbol))], got |-> got]
          /\ UNCHANGED <<hours, beside_cache>>

\* a cache file is cut short, overwritten or edited outside the program
DamageCacheFile ==
    \E key \in CacheKeys :
       \E file \in {Truncated, NotObject, Entry(NoStamp, cache_files[key].data),
                     Entry(NumberStamp, cache_files[key].data),
                     Entry(cache_files[key].cached_at, OtherData),
                     Entry(cache_files[key].cached_at, NoData)} :
          /\ cache_files[key].kind = "object"
          /\ cache_files' = [cache_files EXCEPT ![key] = file]
          /\ UNCHANGED <<hours, fetch_out, beside_cache>>

\* time passes
CacheTick ==
    /\ hours < MaxHours
    /\ hours' = hours + StepHours
    /\ UNCHANGED <<cache_files, fetch_out, beside_cache>>

CacheNext ==
    \/ GetStockFundamentalsCall
    \/ DamageCacheFile
    \/ CacheTick

CacheSpec == PortfolioInit /\ [][CacheNext]_vars

(***************************************************************************)
(* The operations that write a credentials row. An UPDATE whose WHERE      *)
(* clause matches no row changes nothing.                                  *)
(***************************************************************************)

Row(u, b) == broker_credentials[u][b]

Write(u, b, row) ==
    /\ broker_credentials' = [broker_credentials EXCEPT ![u][b] = row]
    /\ UNCHANGED beside_credentials

\* POST /brokers/<broker_id>/credentials with a key and a secret
SaveBrokerCredentials(u, b) ==
    IF Row(u, b).present
    THEN Write(u, b, [Row(u, b) EXCEPT !.status = "configured"])
    ELSE Write(u, b, NewRow)

\* DELETE /brokers/<broker_id>/credentials
DeleteBrokerCredentials(u, b) ==
    /\ Row(u, b).present
    /\ Write(u, b, NoRow)

\* POST /auth/callback: generate_session succeeds, _save_user_access_token
HandleCallback(u) ==
    /\ Row(u, "kite").present
    /\ Write(u, "kite", WithToken(Row(u, "kite")))

\* POST /auth/groww/authenticate: a token is generated, _save_user_groww_access_token
AuthenticateGroww(u) ==
    /\ Row(u, "groww").present
    /\ Write(u, "groww", WithToken(Row(u, "groww")))

\* tools.groww.get_groww: no usable cached token, a new one is generated from
\* the TOTP secret and stored by _save_access_token
GetGroww(u) ==
    /\ Row(u, "groww").present
    /\ Row(u, "groww").totp_secret_encrypted
    /\ Write(u, "groww", [Row(u, "groww") EXCEPT !.access_token_encrypted = TRUE])

\* the TOTP secret of a Groww row is stored; no route of this tree writes the
\* column that get_groww reads
StoreTotpSecret(u) ==
    /\ Row(u, "groww").present
    /\ ~Row(u, "groww").totp_secret_encrypted
    /\ Write(u, "groww", [Row(u, "groww") EXCEPT !.totp_secret_encrypted = TRUE])

\* POST /auth/logout: _clear_user_access_token
Logout(u) ==
    /\ Row(u, "kite").present
    /\ Write(u, "kite", Cleared(Row(u, "kite")))

\* POST /auth/groww/logout: _clear_user_groww_access_token
LogoutGroww(u) ==
    /\ Row(u, "groww").present
    /\ Write(u, "groww", Cleared(Row(u, "groww")))

\* POST /auth/logout-all
LogoutAllBrokers(u) ==
    /\ \E b \in Brokers : Row(u, b).present
    /\ broker_credentials' = [broker_credentials EXCEPT ![u] =
                                 [b \in Brokers |-> IF Row(u, b).present THEN Cleared(Row(u, b))
                                                    ELSE Row(u, b)]]
    /\ UNCHANGED beside_credentials

CredentialsNext ==
    \E u \in Users :
       \/ \E b \in Brokers : SaveBrokerCredentials(u, b)
       \/ \E b \in Brokers : DeleteBrokerCredentials(u, b)
       \/ HandleCallback(u)
       \/ AuthenticateGroww(u)
       \/ GetGroww(u)
       \/ StoreTotpSecret(u)
       \/ Logout(u)
       \/ LogoutGroww(u)
       \/ LogoutAllBrokers(u)

CredentialsSpec == PortfolioInit /\ [][CredentialsNext]_vars

(***************************************************************************)
(* The CLI conversation loop: main.run_conversation_loop                   *)
(***************************************************************************)

\* the words the loop itself takes as a request to leave
LoopExitWords == <<"exit", "quit", "bye", "q">>

AutoSaveEvery == 10
MaxMessages == 10

CliInputs == {"exit", " Quit", "BYE", "q", "goodbye", "Goodbye ", "", "help", "tcs"}

\* the body of the except KeyboardInterrupt clause and of the exit branch:
\* save a conversation that holds a message, and leave
SaveAndLeave ==
    /\ saved' = IF messages > 0 THEN messages ELSE saved
    /\ running' = FALSE

\* one turn of the loop on a line typed by the user
Turn(line) ==
    LET user_input == Strip(line)
    IN /\ running
       /\ cli_input' = user_input
       /\ IF user_input = ""
          THEN UNCHANGED <<running, messages, saved, shown, orchestrator_vars>>
          ELSE IF InList(Lower(user_input), LoopExitWords)
          THEN /\ SaveAndLeave
               /\ UNCHANGED <<messages, shown, orchestrator_vars>>
          ELSE /\ messages + 2 <= MaxMessages
               /\ \E o \in ProcessOutcomes(user_input, last_context, conversation) :
                     /\ last_context' = o.handled.context
                     /\ IF o.handled.ret.status = "raised"
                        THEN /\ messages' = messages + 1
                             /\ UNCHANGED <<saved, shown>>
                        ELSE /\ messages' = messages + 2
                             /\ shown' = o.handled.ret.response
                             /\ saved' = IF (messages + 2) % AutoSaveEvery = 0
                                         THEN messages + 2 ELSE saved
               /\ UNCHANGED <<running, pc, conversation, query, context_before, classified,
                              calls, gave, result>>
       /\ UNCHANGED beside_cli

\* Ctrl+C while the loop waits or works
KeyboardInterrupt ==
    /\ running
    /\ SaveAndLeave
    /\ UNCHANGED <<cli_input, messages, shown, orchestrator_vars, beside_cli>>

CliNext ==
    \/ \E line \in CliInputs : Turn(line)
    \/ KeyboardInterrupt

\* create_orchestrator(conversation): the orchestrator of the loop has one
CliInit == Init /\ conversation

CliSpec == CliInit /\ [][CliNext]_vars

(***************************************************************************)
(* Properties. A state with pc = "done" shows one whole call: its          *)
(* argument, last_context before and after, the classification, what the   *)
(* agents gave and what came back.                                         *)
(***************************************************************************)

Done == pc = "done"

\* the call that has just ended went through _classify_intent, which returned
Classified == Done /\ classified # NotClassified /\ classified.exc = ""

\* the conditions of the cascade on the trimmed query q, of which query_lower
\* is the lower-case form, numbered in the order of the cascade
RuleHolds(k, q, query_lower, context) ==
    CASE k = 1 -> IsComparison(query_lower) /\ Len(ExtractComparisonSymbols(q)) > 0
      [] k = 2 -> IsMfQuery(query_lower)
      [] k = 3 -> IsNewsQuery(query_lower)
      [] k = 4 -> IsConceptQuery(query_lower)
      [] k = 5 -> IsStockQuery(query_lower)
      [] k = 6 -> NonEmpty(context) /\ IsFollowup(query_lower)
      [] k = 7 -> Len(Split(q)) <= 3

RuleIntent ==
    <<STOCK_COMPARISON, MF_ANALYSIS, NEWS, CONCEPT_EXPLANATION, STOCK_ANALYSIS, FOLLOWUP,
      STOCK_ANALYSIS>>

RulesHeld(q, context) ==
    LET query_lower == Strip(Lower(q))
    IN {k \in 1..Len(RuleIntent) : RuleHolds(k, q, query_lower, context)}

First(held) == CHOOSE k \in held : \A other \in held : k <= other

\* C1: process_query always returns a triple; nothing it or an agent raises
\* reaches the caller, and what was raised comes back as a response tagged
\* "system" or "error".
C1_AlwaysReturnsTriple ==
    Done => /\ result.status = "returned"
            /\ (classified.exc # "" \/ gave.status = "raise") => result.agent \in {"system", "error"}

\* C2: the intent returned is that of the first rule of the cascade whose
\* condition holds, and UNCLEAR is returned exactly when no rule holds.
C2_FirstMatchWins ==
    Classified =>
        LET held == RulesHeld(Strip(query), context_before)
        IN /\ (classified.intent = UNCLEAR) <=> (held = {})
           /\ held # {} => classified.intent = RuleIntent[First(held)]

\* a mutual-fund query that also holds a news keyword is given the earlier intent
C2_Witness ==
    /\ Classified
    /\ {2, 3} \subseteq RulesHeld(Strip(query), context_before)
    /\ classified.intent = MF_ANALYSIS

\* C3: a call handled as an exit or help command, or classified NEWS,
\* CONCEPT_EXPLANATION, FOLLOWUP or UNCLEAR, leaves last_context as it was,
\* whatever the agents gave.
C3_ContextKept ==
    (Done /\ (classified = NotClassified
              \/ classified.intent \in {NEWS, CONCEPT_EXPLANATION, FOLLOWUP, UNCLEAR}))
        => last_context = context_before

\* a follow-up answered after a comparison, the comparison still remembered
C3_Witness ==
    /\ Done
    /\ classified.intent = FOLLOWUP
    /\ result.status = "returned"
    /\ context_before # EmptyDict
    /\ last_context = context_before

\* C4: a stock analysis that finds nothing returns the not-found message from
\* "stock_research" and leaves last_context as it was; one that finds something
\* sets last_context to {type: "stock", symbol, name}.
C4_StockAnalysisContext ==
    (Done /\ classified.intent = STOCK_ANALYSIS /\ gave.status # "raise") =>
        LET symbol == classified.params.symbol
            found == gave.analysis
        IN IF found = None
           THEN /\ result = Triple(Text("Sorry, I couldn't find data for '" \o symbol
                                        \o "'. Please check the symbol and try again."),
                                   "stock_research", << >>)
                /\ last_context = context_before
           ELSE /\ result.status = "returned"
                /\ result.agent = "stock_research"
                /\ last_context = [type |-> "stock", symbol |-> symbol,
                                   name |-> IF found.fundamentals # None
                                            THEN found.fundamentals.name ELSE symbol]

\* nothing found for a symbol while an earlier analysis is remembered
C4_Witness ==
    /\ Done
    /\ classified.intent = STOCK_ANALYSIS
    /\ gave.status = "none"
    /\ context_before # EmptyDict
    /\ last_context = context_before

\* C5: a comparison given fewer than two symbols, or one in which no symbol
\* resolves, leaves last_context as it was.
C5_FailedComparisonKeepsContext ==
    (Done /\ classified.intent = STOCK_COMPARISON
          /\ (Len(classified.params.symbols) < 2 \/ (gave.status = "ok" /\ gave.known = {})))
        => last_context = context_before

\* C6: a query "X vs Y", with or without the lead-in word "compare", is
\* classified STOCK_COMPARISON with symbols [X, Y] in upper case.
C6_PairExtracted ==
    \A lead \in LeadIns, x, y \in Tickers :
        (Done /\ query = lead \o x \o " vs " \o y)
            => classified = Returned(STOCK_COMPARISON, [symbols |-> <<Upper(x), Upper(y)>>])

\* C7: _classify_intent never returns STOCK_COMPARISON with fewer than two symbols.
C7_NeverShortComparison ==
    (Classified /\ classified.intent = STOCK_COMPARISON) => Len(classified.params.symbols) >= 2

\* C8: a query of at most three tokens (none included) that meets none of the
\* earlier rules is classified STOCK_ANALYSIS, the symbol its first token in
\* upper case; a longer one that meets no rule is classified UNCLEAR.
C8_ShortQueryIsTicker ==
    (Done /\ classified # NotClassified
          /\ RulesHeld(Strip(query), context_before) \subseteq {7}) =>
        LET tokens == Split(Strip(query))
        IN IF Len(tokens) > 3 THEN classified = Returned(UNCLEAR, EmptyDict)
           ELSE IF Len(tokens) = 0
           THEN classified.exc = "" /\ classified.intent = STOCK_ANALYSIS
           ELSE classified = Returned(STOCK_ANALYSIS, [symbol |-> Upper(tokens[1])])

\* a context other than every context the orchestrator can hold
OtherContext == [type |-> "other"]

\* C9 as stated: the classification is a function of the query text alone,
\* the same in every state of the orchestrator.
C9_QueryAlone ==
    (Done /\ classified # NotClassified) => classified = ClassifyIntent(Strip(query), EmptyDict)

\* C9: the classification is a function of the query text and of whether
\* last_context is empty; what last_context holds makes no difference.
C9_QueryAndContextEmptiness ==
    (Done /\ classified # NotClassified) =>
        classified = ClassifyIntent(Strip(query),
                                    IF context_before = EmptyDict THEN EmptyDict ELSE OtherContext)

\* the same query classified FOLLOWUP after an analysis, and otherwise without one
C9_Witness ==
    /\ Done
    /\ classified.intent = FOLLOWUP
    /\ context_before # EmptyDict
    /\ ClassifyIntent(Strip(query), EmptyDict).intent # FOLLOWUP

C10_Exit == {"exit", "quit", "bye", "goodbye", "q"}
C10_Help == {"help", "?", "commands", "how to use"}

\* C10: a query that, trimmed and in lower case, is an exit or a help command
\* returns the farewell or the help text from "system" with no tools, is not
\* classified, calls no agent and leaves last_context as it was.
C10_CommandsBypassClassification ==
    LET typed == Lower(Strip(query))
    IN (Done /\ typed \in C10_Exit \cup C10_Help) =>
           /\ result = Triple(IF typed \in C10_Exit THEN Farewell ELSE HelpText, "system", << >>)
           /\ classified = NotClassified
           /\ calls = << >>
           /\ gave = NotAsked
           /\ last_context = context_before

\* an exit command typed in upper case between blanks, after an analysis
C10_Witness ==
    /\ Done
    /\ query # Strip(query)
    /\ Lower(Strip(query)) \in C10_Exit
    /\ Strip(query) \notin C10_Exit
    /\ context_before # EmptyDict
    /\ result.agent = "system"

(***************************************************************************)
(* The portfolio service                                                   *)
(***************************************************************************)

\* a call of op has just ended
Served(op) == pf_pc = "done" /\ pf_op = op

\* get_portfolio has just returned a Portfolio
GotPortfolio == Served("get_portfolio") /\ pf_out.exc = "" /\ ~IsNone(pf_out.val)

Abs(x) == IF x < 0 THEN -x ELSE x

\* C11 as stated: in every Portfolio get_portfolio returns, the total value is
\* the stocks value plus the funds value and the total P&L is the stocks P&L
\* plus the funds P&L, on the two-decimal figures of the summary.
C11_TotalsAddUp ==
    GotPortfolio =>
        LET summary == Val(pf_out.val).summary
        IN /\ summary.total_value = summary.stocks_value + summary.mf_value
           /\ summary.total_pnl = summary.stocks_pnl + summary.mf_pnl

\* C11, amended: in every Portfolio get_portfolio returns, the total value is
\* within 0.01 of the stocks value plus the funds value (each of the three is
\* rounded on its own), and the total P&L is exactly the stocks P&L plus the
\* funds P&L.
C11_TotalsWithinOnePaisa ==
    GotPortfolio =>
        LET summary == Val(pf_out.val).summary
        IN /\ Abs(summary.total_value - (summary.stocks_value + summary.mf_value)) <= Mills
           /\ summary.total_pnl = summary.stocks_pnl + summary.mf_pnl

\* a Portfolio of stocks and funds whose total value is 0.01 away from the
\* sum of its parts
C11_Witness ==
    /\ GotPortfolio
    /\ LET summary == Val(pf_out.val).summary
       IN /\ summary.holdings_count > 0
          /\ summary.mf_count > 0
          /\ Abs(summary.total_value - (summary.stocks_value + summary.mf_value)) = Mills
          /\ summary.total_pnl # 0

\* the sum of the values of a dict
RECURSIVE Total(_)
Total(d) ==
    IF DOMAIN d = {} THEN 0
    ELSE LET k == CHOOSE x \in DOMAIN d : TRUE
         IN d[k] + Total([x \in (DOMAIN d) \ {k} |-> d[x]])

\* the value of the holdings of a Portfolio that have a market-cap category
KnownValue(portfolio) ==
    LET all == portfolio.holdings \o portfolio.mf_holdings
    IN Sum([i \in 1..Len(all) |->
               IF all[i].market_cap_category = NoCategory THEN 0 ELSE all[i].value])

\* the market-cap percentages are 100.0 in all, to within 0.1
SumsTo100(portfolio) == Abs(Total(portfolio.allocation.market_cap) - 10000) <= 10

\* C12 as stated: whenever the total value of the Portfolio is positive its
\* market-cap percentages sum to 100.0 within 0.1, and "Unknown" is never a
\* bucket.
C12_SumsTo100WhenValued ==
    GotPortfolio =>
        LET portfolio == Val(pf_out.val)
        IN /\ "Unknown" \notin DOMAIN portfolio.allocation.market_cap
           /\ portfolio.summary.total_value > 0 => SumsTo100(portfolio)

\* C12, amended: whenever the holdings with a known category have a positive
\* value in all, the market-cap percentages sum to 100.0 within 0.1, whatever
\* the holdings of unknown category are worth; "Unknown" is never a bucket.
C12_SumsTo100WhenKnownValued ==
    GotPortfolio =>
        LET portfolio == Val(pf_out.val)
        IN /\ "Unknown" \notin DOMAIN portfolio.allocation.market_cap
           /\ KnownValue(portfolio) > 0 => SumsTo100(portfolio)

\* a Portfolio with a valued holding of unknown category beside two buckets
C12_Witness ==
    /\ GotPortfolio
    /\ LET portfolio == Val(pf_out.val)
       IN /\ \E i \in 1..Len(portfolio.holdings) :
                /\ portfolio.holdings[i].market_cap_category = NoCategory
                /\ portfolio.holdings[i].value > 0
          /\ Cardinality(DOMAIN portfolio.allocation.market_cap) >= 2
          /\ KnownValue(portfolio) > 0
          /\ SumsTo100(portfolio)

\* a request for holdings (get_portfolio or GET /holdings) has just ended
Requested == Served("get_portfolio") \/ Served("holdings_route")

\* what the service gave to the request that has just ended
Answer == IF pf_op = "holdings_route" THEN pf_out.got ELSE pf_out

\* the stock holdings in what the service returned
Holdings == IF pf_op = "holdings_route" THEN Val(Answer.val) ELSE Val(Answer.val).holdings

\* what each broker adapter gave in world w
KiteGave(w) == KiteGetHoldings(w.kite_session, w.kite_api, w.kite_held)

GrowwGave(w) ==
    GrowwGetHoldings(w.groww_creds, w.groww_api, w.groww_held, PriceMap(KiteGave(w).val), w.quotes)

\* the raw stock holdings fetched in world w, Kite's first
RawFetched(w) == Combined(KiteGave(w).val, GrowwGave(w).val)

\* C13: every raw stock holding yields a Holding; one fetched without a price
\* (a Groww holding whose quote lookup failed) does not abort the request and
\* has value = quantity * average_price, invested the same, and no P&L.
C13_MissingPriceKeepsHolding ==
    (Requested /\ GrowwGave(pf_world).exc = "") =>
        \A i \in 1..Len(RawFetched(pf_world)) :
            LET raw == RawFetched(pf_world)[i].raw
            IN IsNone(Get(raw, "last_price", Some(0))) =>
                  /\ Answer.exc = ""
                  /\ ~IsNone(Answer.val)
                  /\ Len(Holdings) = Len(RawFetched(pf_world))
                  /\ IsNone(Holdings[i].current_price)
                  /\ Holdings[i].invested = Round2(raw.quantity * raw.average_price)
                  /\ Holdings[i].value = Round2(raw.quantity * raw.average_price)
                  /\ IsNone(Holdings[i].pnl)
                  /\ IsNone(Holdings[i].pnl_percent)

\* Kite met an expired token in a fetch of the request that has just ended
KiteSignalled ==
    /\ pf_world.kite_session
    /\ \/ pf_world.kite_api = "auth"
       \/ pf_op = "get_portfolio" /\ pf_world.mf_api = "auth"

\* Groww met an expired token: in the fetch, or in the quote lookup of a
\* holding that the price map does not cover
GrowwSignalled ==
    /\ pf_world.groww_creds
    /\ \/ pf_world.groww_api = "auth"
       \/ /\ pf_world.groww_api = "ok"
          /\ \E i \in 1..Len(pf_world.groww_held) :
                LET symbol == pf_world.groww_held[i].trading_symbol
                IN /\ symbol \notin DOMAIN PriceMap(KiteGave(pf_world).val)
                   /\ pf_world.quotes[symbol].status = "auth"

\* the broker tag of the error the caller got, "" when it got none: the
\* error_type of the route's response, the exception class of get_portfolio
ErrorTag ==
    IF pf_op = "holdings_route" THEN pf_out.error_type
    ELSE IF pf_out.exc = "KiteTokenExpiredError" THEN "kite_token_expired"
    ELSE IF pf_out.exc = "GrowwTokenExpiredError" THEN "groww_token_expired"
    ELSE ""

\* Groww's half of C14, which the code meets
GrowwExpiryReachesCaller ==
    (Requested /\ GrowwSignalled) => ErrorTag = "groww_token_expired"

\* C14: when a broker signals an expired token during a portfolio or holdings
\* request, the request ends in an error tagged with that broker (Kite's, if
\* both do, as Kite is fetched first) and not in a result without that
\* broker's holdings.
C14_TokenExpiryReachesCaller ==
    Requested =>
        /\ KiteSignalled => ErrorTag = "kite_token_expired"
        /\ (~KiteSignalled /\ GrowwSignalled) => ErrorTag = "groww_token_expired"

\* the funds fetched in world w
MfGave(w) == KiteGetMfHoldings(w.kite_session, w.mf_api, w.mf_held)

\* no broker returned a stock holding and there is no fund holding
NothingFetched(w) == Len(RawFetched(w)) = 0 /\ Len(MfGave(w).val) = 0

\* whenever get_portfolio returns, it returns None exactly when nothing was fetched
NoneIffNothingFetched ==
    (Served("get_portfolio") /\ pf_out.exc = "") => (IsNone(pf_out.val) <=> NothingFetched(pf_world))

\* C15: with a broker that has no credentials or no session (and no expired
\* token at the other), get_portfolio does not fail: it returns None exactly
\* when no stock holding and no fund holding was fetched, and otherwise a
\* Portfolio holding every stock the other broker returned.
C15_MissingBrokerContributesNothing ==
    (/\ Served("get_portfolio")
     /\ ~pf_world.kite_session \/ ~pf_world.groww_creds
     /\ GrowwGave(pf_world).exc = "") =>
        /\ pf_out.exc = ""
        /\ IsNone(pf_out.val) <=> NothingFetched(pf_world)
        /\ ~IsNone(pf_out.val) =>
              LET fetched == RawFetched(pf_world)
                  holdings == Val(pf_out.val).holdings
              IN /\ Len(holdings) = Len(fetched)
                 /\ \A i \in 1..Len(fetched) :
                       /\ holdings[i].symbol = fetched[i].raw.tradingsymbol
                       /\ holdings[i].broker = fetched[i].broker

\* the prices Kite returned in the request, by symbol: what the price map
\* is to hold (no entry for a holding without a symbol or without a price)
KitePrices ==
    LET held == IF pf_world.kite_session /\ pf_world.kite_api = "ok"
                THEN pf_world.kite_held ELSE << >>
        priced == {i \in 1..Len(held) : /\ held[i].tradingsymbol # ""
                                        /\ ~IsNone(held[i].last_price)
                                        /\ Val(held[i].last_price) # 0}
    IN [symbol \in {held[i].tradingsymbol : i \in priced} |->
           Val(held[CHOOSE i \in priced : held[i].tradingsymbol = symbol].last_price)]

\* the positions of the calls of api in the calls the request issued
Positions(api) == {k \in 1..Len(Answer.calls) : Answer.calls[k].api = api}

\* C16: in every request for holdings the Kite fetch is issued before the
\* Groww fetch and before any Groww quote lookup, and for every holding Groww
\* returned whose symbol Kite priced, no quote lookup is issued and its
\* last_price is Kite's price.
C16_KiteFirstAndPricesReused ==
    Requested =>
        /\ \A k \in Positions("kite.holdings") :
              \A g \in Positions("groww.get_holdings_for_user") \cup Positions("groww.get_quote") :
                 k < g
        /\ \A g \in Positions("groww.get_holdings_for_user") :
              \A q \in Positions("groww.get_quote") : g < q
        /\ LET raw_groww == GrowwGave(pf_world).val
           IN \A i \in 1..Len(raw_groww) :
                 raw_groww[i].tradingsymbol \in DOMAIN KitePrices =>
                    /\ raw_groww[i].last_price = Some(KitePrices[raw_groww[i].tradingsymbol])
                    /\ \A q \in Positions("groww.get_quote") :
                          Answer.calls[q].symbol # raw_groww[i].tradingsymbol

\* a request in which both brokers were fetched, Groww returned a stock Kite
\* had priced and one it had not, and a quote was looked up for the latter only
C16_Witness ==
    /\ Requested
    /\ Positions("kite.holdings") # {}
    /\ Positions("groww.get_holdings_for_user") # {}
    /\ LET raw_groww == GrowwGave(pf_world).val
       IN /\ Len(raw_groww) = 2
          /\ \E i \in 1..2 : /\ raw_groww[i].tradingsymbol \in DOMAIN KitePrices
                             /\ raw_groww[i].last_price = Some(KitePrices[raw_groww[i].tradingsymbol])
          /\ \E i \in 1..2 : /\ raw_groww[i].tradingsymbol \notin DOMAIN KitePrices
                             /\ \E q \in Positions("groww.get_quote") :
                                   Answer.calls[q].symbol = raw_groww[i].tradingsymbol
          /\ Cardinality(Positions("groww.get_quote")) = 1

\* the upper-cased scheme name of the parse that has just ended, and its result
ParsedName == Upper(pf_world.scheme_name)

ParsedCategory == Val(pf_out.val)

\* C17 as stated: the category follows the precedence on the phrases
\* "small cap", "mid cap" (Multi Cap with "large") and "large cap" (Multi Cap
\* with "mid"), every other name is Multi Cap, and the result is one of the
\* four categories.
C17_SpacedPhrasesOnly ==
    Served("parse_mf_market_cap") =>
        LET small == Contains(ParsedName, "SMALL CAP")
            mid == Contains(ParsedName, "MID CAP")
            large == Contains(ParsedName, "LARGE CAP")
        IN /\ small => ParsedCategory = "Small Cap"
           /\ (~small /\ mid) =>
                 ParsedCategory = IF Contains(ParsedName, "LARGE") THEN "Multi Cap" ELSE "Mid Cap"
           /\ (~small /\ ~mid /\ large) =>
                 ParsedCategory = IF Contains(ParsedName, "MID") THEN "Multi Cap" ELSE "Large Cap"
           /\ (~small /\ ~mid /\ ~large) => ParsedCategory = "Multi Cap"
           /\ ParsedCategory \in {"Small Cap", "Mid Cap", "Large Cap", "Multi Cap"}

\* C17, amended: the same precedence with each phrase matched with or without
\* its space ("small cap" or "smallcap", "mid cap" or "midcap", "large cap" or
\* "largecap"); the result is one of the four categories.
C17_SpacedOrJoinedPhrases ==
    Served("parse_mf_market_cap") =>
        LET small == Contains(ParsedName, "SMALL CAP") \/ Contains(ParsedName, "SMALLCAP")
            mid == Contains(ParsedName, "MID CAP") \/ Contains(ParsedName, "MIDCAP")
            large == Contains(ParsedName, "LARGE CAP") \/ Contains(ParsedName, "LARGECAP")
        IN /\ small => ParsedCategory = "Small Cap"
           /\ (~small /\ mid) =>
                 ParsedCategory = IF Contains(ParsedName, "LARGE") THEN "Multi Cap" ELSE "Mid Cap"
           /\ (~small /\ ~mid /\ large) =>
                 ParsedCategory = IF Contains(ParsedName, "MID") THEN "Multi Cap" ELSE "Large Cap"
           /\ (~small /\ ~mid /\ ~large) => ParsedCategory = "Multi Cap"
           /\ ParsedCategory \in {"Small Cap", "Mid Cap", "Large Cap", "Multi Cap"}

\* a name holding "smallcap" after "mid cap", parsed as Small Cap
C17_Witness ==
    /\ Served("parse_mf_market_cap")
    /\ Contains(ParsedName, "MID CAP SMALLCAP")
    /\ ParsedCategory = "Small Cap"

\* every raw stock holding fetched in the request carries a price
AllPriced ==
    \A i \in 1..Len(RawFetched(pf_world)) :
        ~IsNone(Get(RawFetched(pf_world)[i].raw, "last_price", Some(0)))

\* the broker supplied a P&L with the raw holding
Supplied(raw) == "pnl" \in DOMAIN raw /\ ~IsNone(raw.pnl)

\* the funds half of C18, which the code meets: in every Portfolio returned,
\* each fund holding has value, invested, pnl and pnl_percent computed from
\* units and NAVs, whatever pnl the broker sent
FundPnlRecomputed ==
    GotPortfolio =>
        LET raw_mf == MfGave(pf_world).val
            mf_holdings == Val(pf_out.val).mf_holdings
        IN /\ Len(mf_holdings) = Len(raw_mf)
           /\ \A i \in 1..Len(raw_mf) :
                 LET value == raw_mf[i].quantity * raw_mf[i].last_price
                     invested == raw_mf[i].quantity * raw_mf[i].average_price
                 IN /\ mf_holdings[i].value = Round2(value)
                    /\ mf_holdings[i].invested = Round2(invested)
                    /\ mf_holdings[i].pnl = Round2(value - invested)
                    /\ mf_holdings[i].pnl_percent =
                          IF invested > 0 THEN Percent(value - invested, invested) ELSE 0

\* C18: fund holdings have value, invested, pnl and pnl_percent recomputed
\* from units and NAVs; every priced stock holding that was fetched yields a
\* Holding whose pnl is the broker's when the broker supplied one and
\* value - invested otherwise.
C18_PnlSource ==
    /\ FundPnlRecomputed
    /\ (Requested /\ GrowwGave(pf_world).exc = "" /\ AllPriced) =>
          \A i \in 1..Len(RawFetched(pf_world)) :
              LET raw == RawFetched(pf_world)[i].raw
                  value == raw.quantity * Val(raw.last_price)
                  invested == raw.quantity * raw.average_price
              IN /\ Answer.exc = ""
                 /\ ~IsNone(Answer.val)
                 /\ Holdings[i].pnl = Some(Round2(IF Supplied(raw) THEN Val(raw.pnl)
                                                  ELSE value - invested))

\* the fundamentals lookup of the i-th raw holding fetched in the request
Lookup(i) == pf_world.fund[RawFetched(pf_world)[i].raw.tradingsymbol]

\* what C19 asks of a request in which a fundamentals lookup failed
EnrichmentFailuresIndependent ==
    (\E i \in 1..Len(RawFetched(pf_world)) : Lookup(i).status # "ok") =>
        /\ Answer.exc = ""
        /\ ~IsNone(Answer.val)
        /\ Len(Holdings) = Len(RawFetched(pf_world))
        /\ \A i \in 1..Len(RawFetched(pf_world)) :
              /\ Holdings[i].symbol = RawFetched(pf_world)[i].raw.tradingsymbol
              /\ Holdings[i].market_cap_category =
                    IF Lookup(i).status = "ok" THEN Lookup(i).category ELSE NoCategory

\* C19 for the requests in which only Kite returned stock holdings, where the
\* code meets it
KiteEnrichmentFailuresIndependent ==
    (Requested /\ GrowwGave(pf_world).exc = "" /\ Len(GrowwGave(pf_world).val) = 0) =>
        EnrichmentFailuresIndependent

\* C19: when the fundamentals lookup of a fetched stock returns nothing or
\* raises, the request still returns one Holding for each raw holding fetched,
\* that holding with no market-cap category and every other with the category
\* its own lookup gave.
C19_EnrichmentFailuresIndependent ==
    (Requested /\ GrowwGave(pf_world).exc = "") => EnrichmentFailuresIndependent

\* the day-change lookup of the i-th fund fetched in the request
Looked(i) ==
    LET raw == MfGave(pf_world).val[i]
    IN pf_world.looked[Get(raw, "fund", Get(raw, "tradingsymbol", ""))]

\* a failed day-change lookup never aborts the fund holding, which the code meets
DayChangeFailureKeepsHolding ==
    (Served("get_portfolio") /\ GrowwGave(pf_world).exc = "" /\ Len(RawFetched(pf_world)) = 0
     /\ Len(MfGave(pf_world).val) > 0) =>
        /\ GotPortfolio
        /\ Len(Val(pf_out.val).mf_holdings) = Len(MfGave(pf_world).val)

\* C20: in every Portfolio returned, a named fund whose day-change lookup
\* failed (no scheme code, no NAV history, or an exception) has its MFHolding,
\* with day_change and day_change_percent null.
C20_FailedDayChangeIsNull ==
    GotPortfolio =>
        LET mf_holdings == Val(pf_out.val).mf_holdings
        IN /\ Len(mf_holdings) = Len(MfGave(pf_world).val)
           /\ \A i \in 1..Len(mf_holdings) :
                 (mf_holdings[i].scheme_name # "" /\ Looked(i).status # "ok") =>
                    /\ IsNone(mf_holdings[i].day_change)
                    /\ IsNone(mf_holdings[i].day_change_percent)

\* the amount a raw stock holding has invested, is worth and has gained,
\* before any rounding
RawInvested(raw) == Get(raw, "quantity", 0) * Get(raw, "average_price", 0)

RawWorth(raw) == Get(raw, "quantity", 0) * Val(Get(raw, "last_price", Some(0)))

RawPnl(raw) == IF Supplied(raw) THEN Val(raw.pnl) ELSE RawWorth(raw) - RawInvested(raw)

\* C21: in every Portfolio returned, each summary total of invested amounts,
\* of P&L and of value is the two-decimal rounding of the sum of the
\* unrounded per-holding amounts.
C21_RoundedOnlyAtOutput ==
    GotPortfolio =>
        LET summary == Val(pf_out.val).summary
            raws == [i \in 1..Len(RawFetched(pf_world)) |-> RawFetched(pf_world)[i].raw]
            raw_mf == MfGave(pf_world).val
            stocks_invested == Sum([i \in 1..Len(raws) |-> RawInvested(raws[i])])
            mf_invested == Sum([i \in 1..Len(raw_mf) |-> raw_mf[i].quantity * raw_mf[i].average_price])
            stocks_value == Sum([i \in 1..Len(raws) |-> RawWorth(raws[i])])
            mf_value == Sum([i \in 1..Len(raw_mf) |-> raw_mf[i].quantity * raw_mf[i].last_price])
            stocks_pnl == Sum([i \in 1..Len(raws) |-> RawPnl(raws[i])])
        IN /\ summary.stocks_value = Round2(stocks_value)
           /\ summary.mf_value = Round2(mf_value)
           /\ summary.total_value = Round2(stocks_value + mf_value)
           /\ summary.stocks_invested = Round2(stocks_invested)
           /\ summary.mf_invested = Round2(mf_invested)
           /\ summary.total_invested = Round2(stocks_invested + mf_invested)
           /\ summary.stocks_pnl = Round2(stocks_pnl)
           /\ summary.mf_pnl = Round2(mf_value - mf_invested)
           /\ summary.total_pnl = Round2(stocks_pnl + mf_value - mf_invested)

\* the value figures of the summary are rounded once, from unrounded sums
ValueRoundedOnlyAtOutput ==
    GotPortfolio =>
        LET summary == Val(pf_out.val).summary
            raws == [i \in 1..Len(RawFetched(pf_world)) |-> RawFetched(pf_world)[i].raw]
            raw_mf == MfGave(pf_world).val
            stocks_value == Sum([i \in 1..Len(raws) |-> RawWorth(raws[i])])
            mf_value == Sum([i \in 1..Len(raw_mf) |-> raw_mf[i].quantity * raw_mf[i].last_price])
        IN /\ summary.stocks_value = Round2(stocks_value)
           /\ summary.mf_value = Round2(mf_value)
           /\ summary.total_value = Round2(stocks_value + mf_value)

\* the percentages of a returned Portfolio whose denominator is not positive
\* are 0: per holding, of the totals and of the market-cap buckets
ZeroWhenNothingToDivideBy(portfolio) ==
    /\ \A i \in 1..Len(portfolio.holdings) :
          portfolio.holdings[i].invested <= 0 => portfolio.holdings[i].pnl_percent = Some(0)
    /\ \A i \in 1..Len(portfolio.mf_holdings) :
          portfolio.mf_holdings[i].invested <= 0 => portfolio.mf_holdings[i].pnl_percent = 0
    /\ portfolio.summary.total_invested <= 0 => portfolio.summary.total_pnl_percent = 0
    /\ portfolio.summary.total_value <= 0 => portfolio.summary.day_pnl_percent = 0
    /\ KnownValue(portfolio) <= 0 =>
          \A k \in DOMAIN portfolio.allocation.market_cap : portfolio.allocation.market_cap[k] = 0

\* the asset-type percentages of a Portfolio worth nothing are 0
AssetTypeZeroWhenWorthNothing(portfolio) ==
    portfolio.summary.total_value <= 0 =>
        /\ DOMAIN portfolio.allocation.asset_type = {"Stocks", "Mutual Funds"}
        /\ \A k \in DOMAIN portfolio.allocation.asset_type : portfolio.allocation.asset_type[k] = 0

\* what the code meets of C22: the guarded percentages of every Portfolio it returns
ReturnedPercentagesGuarded == GotPortfolio => ZeroWhenNothingToDivideBy(Val(pf_out.val))

\* C22: whenever get_portfolio has fetched holdings that all carry a price, no
\* percentage computation raises, and every percentage whose denominator is
\* zero or negative is 0: per-holding pnl_percent, total_pnl_percent,
\* day_pnl_percent, the market-cap percentages and the asset-type percentages.
C22_PercentagesGuarded ==
    (/\ Served("get_portfolio")
     /\ GrowwGave(pf_world).exc = ""
     /\ AllPriced
     /\ ~NothingFetched(pf_world)) =>
        /\ pf_out.exc = ""
        /\ ~IsNone(pf_out.val)
        /\ ZeroWhenNothingToDivideBy(Val(pf_out.val))
        /\ AssetTypeZeroWhenWorthNothing(Val(pf_out.val))

(***************************************************************************)
(* The tools                                                               *)
(***************************************************************************)

\* where symbol stands in the list given to the comparison that has just ended
PlaceOf(symbol) == CHOOSE i \in 1..Len(pf_world.symbols) : pf_world.symbols[i] = symbol

\* C23: a comparison has one column for each of the first five given symbols
\* that has fundamentals and for no other symbol, in the order given; with no
\* such symbol it answers "Could not fetch data ..." and has no table.
C23_FirstFiveResolvedInOrder ==
    Served("compare_stocks") =>
        LET table == Val(pf_out.val)
            columns == table.items
        IN /\ Range(columns) = {pf_world.symbols[i] : i \in {j \in 1..Len(pf_world.symbols) :
                                    j <= 5 /\ pf_world.symbols[j] \in pf_world.known}}
           /\ \A j, k \in 1..Len(columns) : j < k => PlaceOf(columns[j]) < PlaceOf(columns[k])
           /\ Len(columns) = 0 <=>
                 table.msg = "Could not fetch data for any of the specified stocks."
           /\ Len(columns) > 0 => table.msg = "STOCK COMPARISON"

\* six symbols given, the sixth with fundamentals and one of the first five
\* without: four columns
C23_Witness ==
    /\ Served("compare_stocks")
    /\ Len(pf_world.symbols) = 6
    /\ pf_world.symbols[6] \in pf_world.known
    /\ Cardinality(pf_world.known) = 5
    /\ Len(Val(pf_out.val).items) = 4

\* C24: in the mutual-fund handler the search is made only after the lookup
\* missed; a miss with search results returns a "did you mean" list of at most
\* 5 suggestions, a miss without search results returns the not-found message,
\* and in both miss cases the agent is "mf_research", no tool is listed and
\* last_context is left as it was.
C24_MissSearchesThenSuggests ==
    (Done /\ classified.exc = "" /\ classified.intent = MF_ANALYSIS) =>
        LET fund_name == Get(classified.params, "fund_name", query)
        IN /\ ("search_mutual_funds" \in Range(calls)) <=>
                  (gave.raises # "lookup" /\ gave.found = "")
           /\ "search_mutual_funds" \in Range(calls) =>
                  /\ calls[1] = "analyze_mutual_fund"
                  /\ calls[2] = "search_mutual_funds"
           /\ gave.status = "none" =>
                  /\ result.status = "returned"
                  /\ result.agent = "mf_research"
                  /\ result.tools = << >>
                  /\ last_context = context_before
                  /\ IF Len(gave.results) > 0
                     THEN /\ result.response.msg = "I couldn't find an exact match for '"
                                                      \o fund_name \o "'. Did you mean:"
                          /\ Len(result.response.items) <= 5
                          /\ Len(result.response.items) >= 1
                          /\ \A k \in 1..Len(result.response.items) :
                                 result.response.items[k] = gave.results[k].scheme_name
                     ELSE result.response = Text("Sorry, I couldn't find any mutual fund matching '"
                                                 \o fund_name \o "'.")

\* a miss answered with more search results than are suggested, while an
\* earlier analysis is remembered
C24_Witness ==
    /\ Done
    /\ classified.exc = ""
    /\ classified.intent = MF_ANALYSIS
    /\ gave.status = "none"
    /\ Len(gave.results) > 5
    /\ Len(result.response.items) = 5
    /\ context_before # EmptyDict
    /\ last_context = context_before

\* C26: over any sequence of process_query calls on one orchestrator,
\* last_context is empty at construction and until a dispatch sets it, no
\* query is classified FOLLOWUP while it is empty, and once set it stays
\* non-empty with type "stock", "comparison" or "mutual_fund".
C26_ContextSetOnceNeverEmptied ==
    /\ last_context = EmptyDict
    /\ [](last_context # EmptyDict => last_context.type \in {"stock", "comparison", "mutual_fund"})
    /\ []((Done /\ classified.exc = "" /\ classified.intent = FOLLOWUP) => context_before # EmptyDict)
    /\ [][/\ last_context # EmptyDict => last_context' # EmptyDict
          /\ (last_context = EmptyDict /\ last_context' # EmptyDict) =>
                 /\ pc = "idle"
                 /\ pc' = "done"
                 /\ classified'.intent \in {STOCK_ANALYSIS, STOCK_COMPARISON, MF_ANALYSIS}
                 /\ result'.status = "returned"]_vars

\* a follow-up asked after a fund analysis, which is still remembered
C26_Witness ==
    /\ Done
    /\ classified.exc = ""
    /\ classified.intent = FOLLOWUP
    /\ context_before # EmptyDict
    /\ last_context.type = "mutual_fund"

\* the last two requests sent to a source
Sent(source) == requests[source]

\* two throttled requests in a row are a delay apart
ThrottledPairsKeepDelay ==
    \A source \in Sources :
       (Len(Sent(source)) = 2 /\ Sent(source)[1].throttled /\ Sent(source)[2].throttled) =>
           Sent(source)[2].at - Sent(source)[1].at >= Delay(source)

\* C25: any two consecutive requests to Screener.in are at least 1.0 s apart
\* and any two to MFApi.in at least 0.5 s, kept by one last-request-time
\* watermark per source that every request path to the source moves.
C25_RequestsKeepMinimumDelay ==
    \A source \in Sources :
       /\ Len(Sent(source)) = 2 =>
              Sent(source)[2].at - Sent(source)[1].at >= (IF source = "screener" THEN 10 ELSE 5)
       /\ Len(Sent(source)) > 0 =>
              last_request_time[source] = Sent(source)[Len(Sent(source))].at

\* the call of get_stock_fundamentals that has just been made
AskedFundamentals == fetch_out.op = "get_stock_fundamentals"

\* a file as set_cached writes it
WellFormed(file) ==
    file.kind = "object" /\ file.cached_at.form = "iso" /\ file.data.form = "dump"

Younger(file, t) == t - file.cached_at.at < 24

\* a file that is there and is not as set_cached writes it
Corrupt(file) == file.kind # "missing" /\ ~WellFormed(file)

\* a well-formed file younger than the TTL is served without a page request
FreshEntryServed ==
    (AskedFundamentals /\ ~fetch_out.force_refresh
        /\ WellFormed(fetch_out.before) /\ Younger(fetch_out.before, fetch_out.at)) =>
        /\ fetch_out.got.out = Ok(Some(StockFundamentals(fetch_out.before.data.symbol,
                                                          fetch_out.before.data.fetched_at)))
        /\ ~fetch_out.got.page_requested
        /\ fetch_out.got.files[Strip(Upper(fetch_out.symbol))] = fetch_out.before

\* a page request made and its outcome returned
FreshFetch ==
    /\ fetch_out.got.page_requested
    /\ fetch_out.got.out.exc = ""
    /\ IF fetch_out.page = "none"
       THEN fetch_out.got.out.val = None
       ELSE fetch_out.got.out.val = Some(StockFundamentals(Strip(Upper(fetch_out.symbol)), fetch_out.at))

\* a stale or missing file is not served and a page is requested
StaleOrMissingRefetched ==
    (AskedFundamentals /\ ~fetch_out.force_refresh
        /\ (fetch_out.before.kind = "missing"
             \/ (WellFormed(fetch_out.before) /\ ~Younger(fetch_out.before, fetch_out.at)))) =>
        FreshFetch

\* a failed fetch returns None and leaves the cache file as it was
FailedFetchWritesNothing ==
    (AskedFundamentals /\ fetch_out.got.page_requested /\ fetch_out.page = "none") =>
        /\ fetch_out.got.out = Ok(None)
        /\ fetch_out.got.files[Strip(Upper(fetch_out.symbol))] = fetch_out.before

\* C27: a stored entry younger than 24 h is returned with no page request; an
\* entry at or past 24 h, a missing entry or a corrupt entry is never returned
\* and triggers a fresh fetch; a failed fetch returns None and writes nothing.
C27_CacheServesOnlyFreshEntries ==
    /\ FreshEntryServed
    /\ StaleOrMissingRefetched
    /\ (AskedFundamentals /\ ~fetch_out.force_refresh /\ Corrupt(fetch_out.before)) => FreshFetch
    /\ FailedFetchWritesNothing

\* get_portfolio has returned a Portfolio for the same broker data
FullBuild == GetPortfolio(pf_world)
FullBuilt == FullBuild.exc = "" /\ ~IsNone(FullBuild.val)

\* get_holdings_only gives the holdings of the full build
HoldingsOnlyAgrees ==
    (Served("holdings_route") /\ FullBuilt) =>
        /\ Answer.exc = ""
        /\ Val(Answer.val) = Val(FullBuild.val).holdings

\* C28: for the same broker data get_holdings_only returns the holdings of
\* get_portfolio (same order, tags and values) and get_mf_only returns its
\* mf_holdings: one MFHolding per raw fund holding, the empty list only when
\* there is none.
C28_NarrowOperationsAgree ==
    /\ HoldingsOnlyAgrees
    /\ (Served("get_mf_only") /\ FullBuilt) =>
           /\ pf_out.exc = ""
           /\ Val(pf_out.val) = Val(FullBuild.val).mf_holdings
    /\ (Served("get_mf_only") /\ pf_out.exc = "") =>
           Len(Val(pf_out.val)) = Len(MfGave(pf_world).val)

\* a row marked authenticated holds an access token
AuthenticatedHasToken ==
    \A u \in Users, b \in Brokers :
       (Row(u, b).present /\ Row(u, b).status = "authenticated") => Row(u, b).access_token_encrypted

\* C29: after any sequence of the credential operations, the status of every
\* (user, broker) row is "authenticated" if and only if the row holds an
\* access token; "configured" implies none.
C29_StatusMatchesToken ==
    \A u \in Users, b \in Brokers :
       Row(u, b).present =>
          /\ Row(u, b).status \in {"configured", "authenticated"}
          /\ Row(u, b).status = "authenticated" <=> Row(u, b).access_token_encrypted

\* the loop has ended with every message of the conversation saved
EndedSaved == ~running /\ (messages > 0 => saved = messages)

\* the words of the loop's own list end the loop, the conversation saved
LoopExitWordsEndSaved ==
    /\ InList(Lower(cli_input), LoopExitWords) => EndedSaved
    /\ ~running => (messages > 0 => saved = messages)

\* C30: every input the orchestrator treats as an exit command (exit, quit,
\* bye, goodbye, q, in any case) ends the loop, a conversation holding a
\* message is saved before the loop ends, and the farewell "Goodbye! Your
\* conversation has been saved." is never shown for a conversation that was
\* not saved or while the loop keeps running.
C30_ExitCommandsEndLoopSaved ==
    /\ Lower(cli_input) \in {"exit", "quit", "bye", "goodbye", "q"} => ~running
    /\ ~running => (messages > 0 => saved = messages)
    /\ shown = Text("Goodbye! Your conversation has been saved.") =>
          (~running /\ saved = messages)

====
